--------------------------- MODULE ExperimentRunner ---------------------------
(***************************************************************************)
(* The three experiment drivers of gem5-ebfi/scripts: run_matrix.py,       *)
(* run_write_model.py and run_read_decomposition.py.  Each runs gem5 once  *)
(* for every case (a profile at a point of the sweep) in a directory that  *)
(* a label of the case names, skips the cases whose stats.txt exists       *)
(* unless --force is given, and when all cases are there relates every row *)
(* to the rows of its base profiles and writes three files.                *)
(* The label prints the period with {period:g}, that is with six digits:   *)
(* cases of different points may share a directory.                        *)
(*                                                                         *)
(* The three have the same control and differ in their profiles and in     *)
(* what divides what.  Directories and files outlive an invocation; gem5   *)
(* may fail, and the driver may be killed (gem5 with it) at any moment.    *)
(* A stats.txt is described by what extract_row makes of it: a missing     *)
(* statistic reads as 0.0, and an average over nothing is 0.0.             *)
(***************************************************************************)
EXTENDS Naturals, Sequences

CONSTANTS
    Programs,       \* the drivers looked at
    Points,         \* points of a sweep: seed, working set, period, pattern
    Label,          \* how the label of a case prints its point
    PointLists,     \* the sweeps an invocation may ask for
    Configs,        \* settings that are not part of a case's label
    NoConfig,
    MaxInvocations  \* bound on the invocations

Program == {"matrix", "write", "read"}
Profile == {"baseline", "optimistic", "verified",
            "insecure", "anchor_aead", "anchor_only", "ebfi"}

ASSUME ProgramsAssumption == Programs \subseteq Program
ASSUME LabelAssumption == Label \in [Points -> STRING]
ASSUME SweepAssumption == PointLists \subseteq Seq(Points) \ {<<>>}
ASSUME ConfigAssumption == NoConfig \notin Configs
ASSUME InvocationsAssumption == MaxInvocations \in Nat

VARIABLES
    program,      \* which of the drivers this is
    dirs,         \* run directory -> its command.json and its stats.txt
    files,        \* output file -> the rows last written to it
    phase,        \* where the invocation is
    args,         \* its settings, and whether --force is given
    todo,         \* its cases from the current one on
    rows,         \* what extract_row has returned so far
    invocations,
    marks,        \* history: what became of a directory's stats.txt since gem5
                  \* last opened it
    torn          \* history: an invocation was killed while it wrote its files

historyVars == <<marks, torn>>
diskVars == <<dirs, files>>
vars == <<program, diskVars, phase, args, todo, rows, invocations, historyVars>>

Case == [profile : Profile, point : Points]
Dir == [profile : Profile, label : {Label[p] : p \in Points}]
Command == [case : Case, config : Configs]
NoCase == [profile |-> "none", point |-> "none"]
NoCommand == [case |-> NoCase, config |-> NoConfig]
Absent == [case |-> NoCase, config |-> NoConfig, content |-> "absent"]
\* What gem5 has written when it exits: "idle" is a run without a packet of the
\* kind the latency averages over, as with --read-percent 0 or 100.
Finished == {"complete", "idle"}
\* Before that: nothing that parses, or cut short but with a latency.
Stats == [case : Case, config : Configs, content : Finished \cup {"empty", "partial"}]
\* The row that is made of it has latency 0.0.
ReadsZero == {"empty", "idle"}
Row == [case : Case, stats : Stats]
Args == [config : Configs, force : BOOLEAN]
NoArgs == [config |-> NoConfig, force |-> FALSE]
NoResult == [args |-> NoArgs, rows |-> {}]
Outputs == {"raw_results.csv", "summary.json", "summary.csv"}
Simulating == {"launched", "running", "dumping"}
\* An invocation has ended since; gem5 was stopped; only command.json is newer.
Mark == {"old", "stopped", "unopened"}

-----------------------------------------------------------------------------
(* The tables: profiles in the order they run, and what a row is divided by.*)

MatrixProfiles == <<"baseline", "optimistic", "verified">>
\* The seven ebfi profiles are treated alike: one stands for them.
WriteProfiles == <<"insecure", "anchor_aead", "ebfi">>
ReadProfiles == <<"insecure", "anchor_only", "anchor_aead">>

Profiles == CASE program = "matrix" -> MatrixProfiles
              [] program = "write" -> WriteProfiles
              [] program = "read" -> ReadProfiles

MatrixBases(p) == {"baseline"}
WriteBases(p) == {"insecure"} \cup IF p = "ebfi" THEN {"anchor_aead"} ELSE {}
ReadBases(p) ==
    {"insecure"} \cup IF p = "anchor_aead" THEN {"anchor_only", "anchor_aead"} ELSE {}

Bases(p) == CASE program = "matrix" -> MatrixBases(p)
              [] program = "write" -> WriteBases(p)
              [] program = "read" -> ReadBases(p)

\* itertools.product: profiles outermost, so that the base profile runs first.
Cases(points) ==
    LET CasesOf(p) == [i \in 1..Len(points) |-> [profile |-> p, point |-> points[i]]]
    IN  CasesOf(Profiles[1]) \o CasesOf(Profiles[2]) \o CasesOf(Profiles[3])

-----------------------------------------------------------------------------
(* An invocation.                                                          *)

Init ==
    /\ program \in Programs
    /\ dirs = [d \in Dir |-> [command |-> NoCommand, stats |-> Absent]]
    /\ files = [f \in Outputs |-> NoResult]
    /\ phase = "idle" /\ args = NoArgs /\ todo = <<>> /\ rows = {}
    /\ invocations = 0
    /\ marks = [d \in Dir |-> {}] /\ torn = FALSE

Invoke(points, config, force) ==
    /\ phase = "idle" /\ invocations < MaxInvocations
    /\ invocations' = invocations + 1
    /\ args' = [config |-> config, force |-> force]
    /\ todo' = Cases(points)
    /\ phase' = "case"
    /\ UNCHANGED <<program, diskVars, rows, historyVars>>

\* Faulty: the label leaves out the point.
RunDirOfProfile(c) == [profile |-> c.profile, label |-> Label[CHOOSE p \in Points : TRUE]]

\* The label names the profile and prints the point.
RunDir(c) == [profile |-> c.profile, label |-> Label[c.point]]

Current == Head(todo)

\* The process ends: only what is on disk is left.
EndInvocation ==
    /\ phase' = "idle" /\ args' = NoArgs /\ todo' = <<>> /\ rows' = {}
    /\ marks' = [d \in Dir |-> marks[d]
          \cup (IF dirs[d].stats = Absent THEN {} ELSE {"old"})
          \cup (IF phase \in {"running", "dumping"} /\ d = RunDir(Current)
                THEN {"stopped"} ELSE {})]
    /\ UNCHANGED <<program, invocations>>

CurrentStats == dirs[RunDir(Current)].stats

\* Faulty: "and" for "or".
MustRunForcedOnly == args.force /\ CurrentStats.content = "absent"

MustRun == args.force \/ CurrentStats.content = "absent"

\* extract_row on the current case.
AddRow ==
    /\ rows' = rows \cup {[case |-> Current, stats |-> CurrentStats]}
    /\ todo' = Tail(todo)
    /\ phase' = "case"
    /\ UNCHANGED <<program, diskVars, args, invocations, historyVars>>

Reuse == phase = "case" /\ todo # <<>> /\ ~MustRun /\ AddRow

StartGem5(command) ==
    /\ phase = "case" /\ todo # <<>> /\ MustRun
    /\ dirs' = [dirs EXCEPT ![RunDir(Current)].command = command]
    /\ marks' = [marks EXCEPT ![RunDir(Current)] = @ \cup {"unopened"}]
    /\ phase' = "launched"
    /\ UNCHANGED <<program, files, args, todo, rows, invocations, torn>>

\* Faulty: a command.json that is there is kept.
LaunchKeepingCommand ==
    LET written == dirs[RunDir(Current)].command IN
    StartGem5(IF written = NoCommand THEN [case |-> Current, config |-> args.config]
                                     ELSE written)

\* command.json is written before gem5 is started; an old stats.txt stays. The
\* command has the exact point and every setting that gem5 is given.
Launch == StartGem5([case |-> Current, config |-> args.config])

\* What gem5 makes of stats.txt while it runs the current case.
Leaves(content) ==
    /\ dirs' = [dirs EXCEPT ![RunDir(Current)].stats =
                   [case |-> Current, config |-> args.config, content |-> content]]
    /\ UNCHANGED <<program, files, args, todo, rows, invocations, torn>>

\* gem5 creates stats.txt, empty, when it starts, ...
Gem5Opens ==
    /\ phase = "launched" /\ phase' = "running"
    /\ Leaves("empty")
    /\ marks' = [marks EXCEPT ![RunDir(Current)] = {}]

\* ... writes it when the experiment's script dumps the statistics, ...
Gem5Dumps ==
    /\ phase = "running" /\ phase' = "dumping"
    /\ Leaves("partial")
    /\ UNCHANGED marks

\* ... and exits with 0 after that.
Gem5Exits ==
    /\ phase = "dumping" /\ phase' = "exited"
    /\ \E content \in Finished : Leaves(content)
    /\ UNCHANGED marks

Collect == phase = "exited" /\ AddRow

\* Faulty: the return code of gem5 is not looked at.
Gem5FailsUnnoticed ==
    /\ phase \in Simulating
    /\ phase' = "exited"
    /\ UNCHANGED <<program, diskVars, args, todo, rows, invocations, historyVars>>

\* A nonzero return code: RuntimeError, and stats.txt is left as it is.
Gem5Fails ==
    /\ phase \in Simulating
    /\ EndInvocation
    /\ UNCHANGED <<diskVars, torn>>

\* The driver is interrupted or killed, and gem5 with it.
Kill ==
    /\ phase # "idle"
    /\ EndInvocation
    /\ torn' = (torn \/ phase \in Outputs)
    /\ UNCHANGED diskVars

-----------------------------------------------------------------------------
(* write_outputs.                                                          *)

BaseRows(row, all) == {base \in all : base.case.point = row.case.point
                                      /\ base.case.profile \in Bases(row.case.profile)}

\* Some row would be divided by a latency of 0.0.
DividesByZero ==
    \E row \in rows : \E base \in BaseRows(row, rows) : base.stats.content \in ReadsZero

\* Faulty: the raw results are written before anything is divided.
ZeroDivisionErrorAfterRaw ==
    /\ phase = "case" /\ todo = <<>> /\ DividesByZero
    /\ EndInvocation
    /\ files' = [files EXCEPT !["raw_results.csv"] = [args |-> args, rows |-> rows]]
    /\ UNCHANGED <<dirs, torn>>

ZeroDivisionError ==
    /\ phase = "case" /\ todo = <<>> /\ DividesByZero
    /\ EndInvocation
    /\ UNCHANGED <<diskVars, torn>>

BeginOutputs ==
    /\ phase = "case" /\ todo = <<>> /\ ~DividesByZero
    /\ phase' = "raw_results.csv"
    /\ UNCHANGED <<program, diskVars, args, todo, rows, invocations, historyVars>>

Write(file) ==
    /\ phase = file
    /\ files' = [files EXCEPT ![file] = [args |-> args, rows |-> rows]]
    /\ UNCHANGED dirs

WriteThen(file, next) ==
    /\ Write(file)
    /\ phase' = next
    /\ UNCHANGED <<program, args, todo, rows, invocations, historyVars>>

WriteRaw == WriteThen("raw_results.csv", "summary.json")
WriteSummaryJson == WriteThen("summary.json", "summary.csv")
\* All three are of one invocation again.
WriteSummaryCsv == Write("summary.csv") /\ EndInvocation /\ torn' = FALSE

Next ==
    \/ \E points \in PointLists, config \in Configs, force \in BOOLEAN :
          Invoke(points, config, force)
    \/ Reuse
    \/ Launch
    \/ Gem5Opens
    \/ Gem5Dumps
    \/ Gem5Exits
    \/ Collect
    \/ Gem5Fails
    \/ Kill
    \/ ZeroDivisionError
    \/ BeginOutputs
    \/ WriteRaw
    \/ WriteSummaryJson
    \/ WriteSummaryCsv

Spec == Init /\ [][Next]_vars

-----------------------------------------------------------------------------
TypeOK ==
    /\ program \in Programs
    /\ dirs \in [Dir -> [command : Command \cup {NoCommand}, stats : Stats \cup {Absent}]]
    /\ files \in [Outputs -> [args : Args \cup {NoArgs}, rows : SUBSET Row]]
    /\ phase \in {"idle", "case", "exited"} \cup Simulating \cup Outputs
    /\ args \in Args \cup {NoArgs}
    /\ todo \in Seq(Case)
    /\ rows \subseteq Row
    /\ invocations \in 0..MaxInvocations
    /\ marks \in [Dir -> SUBSET Mark]
    /\ torn \in BOOLEAN

\* The row was measured to the end, on the case it is reported for, and with the
\* settings given.
Measured(row, config) ==
    row.stats.content \in Finished /\ row.stats.case = row.case /\ row.stats.config = config

\* What --force reports it has measured itself, with its own settings, whatever
\* earlier invocations left in the directories and wherever they were stopped,
\* and even where two cases of the sweep share a directory: the scripts of the
\* paper's sweeps all pass it.
ForcedResultsClean == \A f \in Outputs : files[f].args.force =>
    \A row \in files[f].rows : Measured(row, files[f].args.config)

SameLabel(c1, c2) == c1.profile = c2.profile /\ Label[c1.point] = Label[c2.point]

\* The invocation has measured it for an earlier case that shares the directory.
Borrowed(row) == \E other \in rows :
    /\ SameLabel(other.case, row.case)
    /\ other.stats = row.stats /\ Measured(other, args.config)

\* It was in the directory when the invocation began: of a case with the same
\* label, with any settings, and measured to the end unless gem5 was stopped.
Inherited(row) ==
    /\ SameLabel(row.stats.case, row.case)
    /\ "old" \in marks[RunDir(row.case)]
    /\ row.stats.content \in Finished \/ "stopped" \in marks[RunDir(row.case)]

\* Where the rows of any invocation come from, forced or not, and however the
\* invocations before it ended. Without --force a label is all that ties a row
\* to its measurement: neither the exact point nor the settings need be those
\* reported, and a gem5 that was stopped leaves a row that looks like any other.
RowsTraceable == \A row \in rows :
    \/ Measured(row, args.config)
    \/ ~args.force /\ (Borrowed(row) \/ Inherited(row))

\* command.json tells the exact point and the settings behind a stats.txt, which
\* the label does not, unless the last gem5 was stopped before it opened it.
CommandTells == \A d \in Dir : LET stats == dirs[d].stats IN
    stats # Absent /\ "unopened" \notin marks[d] =>
        dirs[d].command = [case |-> stats.case, config |-> stats.config]

\* Raw results and both summaries come from the same rows, unless an invocation
\* was killed while it wrote them and none has finished since; a division by
\* zero leaves all three as they were.
FilesAgree == ~torn /\ phase \notin Outputs =>
    \A f, g \in Outputs : files[f] = files[g]
=============================================================================
