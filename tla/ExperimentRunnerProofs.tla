------------------------ MODULE ExperimentRunnerProofs ------------------------
(***************************************************************************)
(* Theorems about ExperimentRunner: for every sweep, any way to print its  *)
(* points, any number of settings and invocations, and failures and kills  *)
(* at any moment.                                                          *)
(***************************************************************************)
EXTENDS ExperimentRunner, TLAPS

CurrentDir == RunDir(Current)

\* While an invocation works on a case there is one; its command.json is of this
\* invocation, and so are the statistics, finished, once gem5 has exited with 0.
CaseInv ==
    /\ phase # "idle" => args \in Args
    /\ phase \in Simulating \cup {"exited"} =>
          /\ todo # <<>>
          /\ dirs[CurrentDir].command = [case |-> Current, config |-> args.config]
    /\ phase = "exited" =>
          Measured([case |-> Current, stats |-> dirs[CurrentDir].stats], args.config)

\* No rows are left over between invocations.
IdleInv == phase = "idle" => rows = {}

\* A run directory holds statistics of cases with its own label.
DirInv == \A d \in Dir : dirs[d].stats # Absent => RunDir(dirs[d].stats.case) = d

\* Only statistics can be old, and without --force none are replaced.
OldInv == \A d \in Dir : "old" \in marks[d] => dirs[d].stats # Absent
LaunchInv == phase = "launched" /\ ~args.force => dirs[CurrentDir].stats = Absent

\* Statistics are old, or of the case at work, or have become a row.
OldStats(d) ==
    "old" \in marks[d] /\ (dirs[d].stats.content \in Finished \/ "stopped" \in marks[d])
AtWork(d) == phase \in {"running", "dumping", "exited"} /\ d = CurrentDir
InRows(d) == \E row \in rows : row.stats = dirs[d].stats /\ Measured(row, args.config)
OriginInv == \A d \in Dir : dirs[d].stats # Absent => OldStats(d) \/ AtWork(d) \/ InRows(d)

\* The files already written by the invocation that is writing them.
FilesInv ==
    LET this == [args |-> args, rows |-> rows] IN
    /\ phase = "summary.json" => files["raw_results.csv"] = this
    /\ phase = "summary.csv" => /\ files["raw_results.csv"] = this
                                /\ files["summary.json"] = this

-----------------------------------------------------------------------------
(* Facts about the operators.                                              *)

USE DEF CurrentDir, CurrentStats

\* The cases of a sweep are cases.
LEMMA CasesTyped ==
    ASSUME program \in Programs, NEW points \in PointLists
    PROVE  Cases(points) \in Seq(Case)
<1>1. points \in Seq(Points)  BY SweepAssumption
<1>2. Profiles[1] \in Profile /\ Profiles[2] \in Profile /\ Profiles[3] \in Profile
  <2>1. program \in {"matrix", "write", "read"}  BY ProgramsAssumption DEF Program
  <2>. QED  BY <2>1 DEF Profiles, MatrixProfiles, WriteProfiles, ReadProfiles, Profile
<1>3. ASSUME NEW p \in Profile
      PROVE  [i \in 1..Len(points) |-> [profile |-> p, point |-> points[i]]] \in Seq(Case)
  <2>1. \A i \in 1..Len(points) : points[i] \in Points  BY <1>1
  <2>2. Len(points) \in Nat  BY <1>1
  <2>. QED  BY <2>1, <2>2 DEF Case
<1>. QED  BY <1>2, <1>3 DEF Cases

\* A case has a run directory.
LEMMA RunDirTyped == ASSUME NEW c \in Case PROVE RunDir(c) \in Dir
BY DEF RunDir, Dir, Case

\* Statistics that are present are of a case.
LEMMA StatsPresent ==
    ASSUME TypeOK, NEW d \in Dir
    PROVE  /\ dirs[d].stats.content = "absent" <=> dirs[d].stats = Absent
           /\ dirs[d].stats # Absent => dirs[d].stats \in Stats
<1>1. dirs[d].stats \in Stats \cup {Absent}  BY DEF TypeOK
<1>. QED  BY <1>1 DEF Stats, Absent, Finished

\* The case at work is a case, and has a directory.
LEMMA CurrentTyped ==
    ASSUME TypeOK, todo # <<>>
    PROVE  Current \in Case /\ Tail(todo) \in Seq(Case) /\ CurrentDir \in Dir
<1>1. todo \in Seq(Case)  BY DEF TypeOK
<1>. QED  BY <1>1, RunDirTyped DEF Current

-----------------------------------------------------------------------------
(* Every action preserves the type invariant.                              *)

LEMMA EndTyped ==
    ASSUME TypeOK, EndInvocation, UNCHANGED dirs, torn' \in BOOLEAN,
           files' \in [Outputs -> [args : Args \cup {NoArgs}, rows : SUBSET Row]]
    PROVE  TypeOK'
<1>1. marks' \in [Dir -> SUBSET Mark]  BY DEF TypeOK, EndInvocation, Mark
<1>2. args' \in Args \cup {NoArgs} /\ todo' \in Seq(Case) /\ rows' \subseteq Row
  BY DEF EndInvocation
<1>. QED  BY <1>1, <1>2 DEF TypeOK, EndInvocation

LEMMA AddRowTyped ==
    ASSUME TypeOK, todo # <<>>, CurrentStats # Absent, AddRow
    PROVE  TypeOK'
<1>1. Current \in Case /\ Tail(todo) \in Seq(Case) /\ CurrentDir \in Dir  BY CurrentTyped
<1>2. CurrentStats \in Stats  BY <1>1, StatsPresent
<1>3. rows' \subseteq Row  BY <1>1, <1>2 DEF TypeOK, AddRow, Row
<1>. QED  BY <1>1, <1>3 DEF TypeOK, AddRow, diskVars, historyVars

LEMMA LeavesTyped ==
    ASSUME TypeOK, CaseInv, NEW content \in Finished \cup {"empty", "partial"},
           phase \in Simulating, Leaves(content), phase' \in Simulating \cup {"exited"},
           marks' \in [Dir -> SUBSET Mark]
    PROVE  TypeOK'
<1>1. Current \in Case /\ CurrentDir \in Dir  BY CurrentTyped DEF CaseInv
<1>2. [case |-> Current, config |-> args.config, content |-> content] \in Stats
  BY <1>1 DEF CaseInv, Stats, Args, Simulating
<1>3. dirs' \in [Dir -> [command : Command \cup {NoCommand}, stats : Stats \cup {Absent}]]
  BY <1>2 DEF TypeOK, Leaves
<1>. QED  BY <1>3 DEF TypeOK, Leaves

\* The statistics are there when a row is made of them.
LEMMA RowsFromStats ==
    ASSUME TypeOK, CaseInv, Reuse \/ Collect
    PROVE  todo # <<>> /\ AddRow /\ CurrentStats # Absent
<1>1. CASE Reuse
  <2>1. todo # <<>> /\ AddRow /\ CurrentStats.content # "absent"  BY <1>1 DEF Reuse, MustRun
  <2>. QED  BY <2>1 DEF Absent
<1>2. CASE Collect
  <2>1. todo # <<>> /\ AddRow /\ CurrentStats.content \in Finished
    BY <1>2 DEF Collect, CaseInv, Measured
  <2>. QED  BY <2>1 DEF Absent, Finished
<1>. QED  BY <1>1, <1>2

LEMMA LaunchTyped == ASSUME TypeOK, CaseInv, Launch PROVE TypeOK'
<1>1. Current \in Case /\ CurrentDir \in Dir  BY CurrentTyped DEF Launch, StartGem5
<1>2. [case |-> Current, config |-> args.config] \in Command
  BY <1>1 DEF Launch, StartGem5, CaseInv, Args, Command
<1>3. dirs' \in [Dir -> [command : Command \cup {NoCommand}, stats : Stats \cup {Absent}]]
  BY <1>1, <1>2 DEF Launch, StartGem5, TypeOK
<1>4. marks' \in [Dir -> SUBSET Mark]  BY <1>1 DEF Launch, StartGem5, TypeOK, Mark
<1>. QED  BY <1>3, <1>4 DEF Launch, StartGem5, TypeOK, Simulating

LEMMA TypeStep == TypeOK /\ CaseInv /\ [Next]_vars => TypeOK'
<1>. SUFFICES ASSUME TypeOK, CaseInv, [Next]_vars PROVE TypeOK'  OBVIOUS
<1>1. ASSUME NEW points \in PointLists, NEW config \in Configs, NEW force \in BOOLEAN,
             Invoke(points, config, force)
      PROVE  TypeOK'
  <2>1. todo' \in Seq(Case)  BY <1>1, CasesTyped DEF Invoke, TypeOK
  <2>2. invocations' \in 0..MaxInvocations
    BY <1>1, InvocationsAssumption DEF Invoke, TypeOK
  <2>3. args' \in Args  BY <1>1 DEF Invoke, Args
  <2>. QED  BY <1>1, <2>1, <2>2, <2>3 DEF Invoke, TypeOK, diskVars, historyVars
<1>2. CASE Reuse \/ Collect  BY <1>2, RowsFromStats, AddRowTyped
<1>3. CASE Launch  BY <1>3, LaunchTyped
<1>4. CASE Gem5Opens
  <2>1. marks' \in [Dir -> SUBSET Mark]  BY <1>4 DEF Gem5Opens, TypeOK
  <2>. QED  BY <1>4, <2>1, LeavesTyped DEF Gem5Opens, Simulating
<1>5. CASE Gem5Dumps
  <2>1. marks' \in [Dir -> SUBSET Mark]  BY <1>5 DEF Gem5Dumps, TypeOK
  <2>. QED  BY <1>5, <2>1, LeavesTyped DEF Gem5Dumps, Simulating
<1>6. CASE Gem5Exits
  <2>1. marks' \in [Dir -> SUBSET Mark]  BY <1>6 DEF Gem5Exits, TypeOK
  <2>. QED  BY <1>6, <2>1, LeavesTyped DEF Gem5Exits, Simulating
<1>7. CASE Gem5Fails  BY <1>7, EndTyped DEF Gem5Fails, diskVars, TypeOK
<1>8. CASE Kill  BY <1>8, EndTyped DEF Kill, diskVars, TypeOK
<1>9. CASE ZeroDivisionError  BY <1>9, EndTyped DEF ZeroDivisionError, diskVars, TypeOK
<1>10. CASE BeginOutputs
  BY <1>10 DEF BeginOutputs, TypeOK, diskVars, historyVars, Outputs
<1>11. ASSUME NEW f \in Outputs, Write(f)
       PROVE  files' \in [Outputs -> [args : Args \cup {NoArgs}, rows : SUBSET Row]]
  BY <1>11 DEF Write, TypeOK
<1>12. CASE WriteRaw \/ WriteSummaryJson
  BY <1>11, <1>12 DEF WriteRaw, WriteSummaryJson, WriteThen, Write, TypeOK, Outputs,
                      historyVars
<1>13. CASE WriteSummaryCsv
  BY <1>11, <1>13, EndTyped DEF WriteSummaryCsv, Write, TypeOK, Outputs
<1>14. CASE UNCHANGED vars  BY <1>14 DEF TypeOK, vars, diskVars, historyVars
<1>. QED  BY <1>1, <1>2, <1>3, <1>4, <1>5, <1>6, <1>7, <1>8, <1>9, <1>10, <1>12, <1>13, <1>14
          DEF Next

-----------------------------------------------------------------------------
(* The case at work, and what the directories hold.                        *)

LEMMA CaseStep == TypeOK /\ CaseInv /\ [Next]_vars => CaseInv'
<1>. SUFFICES ASSUME TypeOK, CaseInv, [Next]_vars PROVE CaseInv'  OBVIOUS
<1>1. ASSUME NEW points \in PointLists, NEW config \in Configs, NEW force \in BOOLEAN,
             Invoke(points, config, force)
      PROVE  CaseInv'
  BY <1>1 DEF Invoke, CaseInv, Args, Simulating
<1>2. CASE Reuse \/ Collect
  BY <1>2 DEF Reuse, Collect, AddRow, CaseInv, Simulating
<1>3. CASE Launch
  <2>1. CurrentDir \in Dir  BY <1>3, CurrentTyped DEF Launch, StartGem5
  <2>2. Current' = Current /\ CurrentDir' = CurrentDir
    BY <1>3 DEF Launch, StartGem5, Current, RunDir
  <2>3. dirs'[CurrentDir].command = [case |-> Current, config |-> args.config]
    BY <1>3, <2>1 DEF Launch, StartGem5, TypeOK
  <2>. QED  BY <1>3, <2>2, <2>3 DEF Launch, StartGem5, CaseInv, Simulating
<1>4. CASE Gem5Opens \/ Gem5Dumps \/ Gem5Exits
  <2>1. CurrentDir \in Dir
    BY <1>4, CurrentTyped DEF Gem5Opens, Gem5Dumps, Gem5Exits, CaseInv, Simulating
  <2>2. PICK content \in Finished \cup {"empty", "partial"} :
           /\ Leaves(content)
           /\ phase' = "exited" => content \in Finished
    BY <1>4 DEF Gem5Opens, Gem5Dumps, Gem5Exits
  <2>3. Current' = Current /\ CurrentDir' = CurrentDir /\ args' = args /\ todo' = todo
    BY <2>2 DEF Leaves, Current, RunDir
  <2>4. /\ dirs'[CurrentDir].stats = [case |-> Current, config |-> args.config,
                                      content |-> content]
        /\ dirs'[CurrentDir].command = dirs[CurrentDir].command
    BY <2>1, <2>2 DEF Leaves, TypeOK
  <2>5. phase \in Simulating /\ phase' \in Simulating \cup {"exited"}
    BY <1>4 DEF Gem5Opens, Gem5Dumps, Gem5Exits, Simulating
  <2>6. phase # "idle" /\ phase' # "idle"  BY <2>5 DEF Simulating
  <2>. QED  BY <2>2, <2>3, <2>4, <2>5, <2>6 DEF CaseInv, Measured
<1>6. CASE Gem5Fails \/ Kill \/ ZeroDivisionError \/ WriteSummaryCsv
  BY <1>6 DEF Gem5Fails, Kill, ZeroDivisionError, WriteSummaryCsv, EndInvocation, CaseInv,
              Simulating
<1>7. CASE BeginOutputs \/ WriteRaw \/ WriteSummaryJson
  BY <1>7 DEF BeginOutputs, WriteRaw, WriteSummaryJson, WriteThen, Write, CaseInv, Simulating
<1>8. CASE UNCHANGED vars
  <2>1. Current' = Current /\ CurrentDir' = CurrentDir  BY <1>8 DEF vars, Current, RunDir
  <2>. QED  BY <1>8, <2>1 DEF vars, diskVars, CaseInv, Measured
<1>. QED  BY <1>1, <1>2, <1>3, <1>4, <1>6, <1>7, <1>8 DEF Next

\* gem5 changes the statistics of one directory, and no other step changes any.
LEMMA StatsStep ==
    ASSUME TypeOK, CaseInv, [Next]_vars, NEW d \in Dir
    PROVE  \/ dirs'[d].stats = dirs[d].stats
           \/ /\ d = CurrentDir /\ Current \in Case
              /\ Gem5Opens \/ Gem5Dumps \/ Gem5Exits
              /\ todo' = todo /\ Current' = Current /\ CurrentDir' = CurrentDir
              /\ args' = args /\ rows' = rows
              /\ dirs'[d].stats # Absent
              /\ dirs'[d].stats.case = Current /\ dirs'[d].stats.config = args.config
<1>1. CASE Launch
  <2>1. CurrentDir \in Dir  BY <1>1, CurrentTyped DEF Launch, StartGem5
  <2>. QED  BY <1>1, <2>1 DEF Launch, StartGem5, TypeOK
<1>2. CASE Gem5Opens \/ Gem5Dumps \/ Gem5Exits
  <2>1. todo # <<>> /\ Current \in Case /\ CurrentDir \in Dir
    BY <1>2, CurrentTyped DEF Gem5Opens, Gem5Dumps, Gem5Exits, CaseInv, Simulating
  <2>2. PICK content \in Finished \cup {"empty", "partial"} : Leaves(content)
    BY <1>2 DEF Gem5Opens, Gem5Dumps, Gem5Exits
  <2>3. Current' = Current /\ CurrentDir' = CurrentDir /\ args' = args /\ todo' = todo
        /\ rows' = rows
    BY <2>2 DEF Leaves, Current, RunDir
  <2>4. d # CurrentDir => dirs'[d].stats = dirs[d].stats
    BY <2>1, <2>2 DEF Leaves, TypeOK
  <2>5. d = CurrentDir => dirs'[d].stats =
           [case |-> Current, config |-> args.config, content |-> content]
    BY <2>1, <2>2 DEF Leaves, TypeOK
  <2>6. content # "absent"  BY DEF Finished
  <2>. QED  BY <1>2, <2>1, <2>3, <2>4, <2>5, <2>6 DEF Absent
<1>3. CASE ~(Launch \/ Gem5Opens \/ Gem5Dumps \/ Gem5Exits)
  <2>1. dirs' = dirs
    BY <1>3 DEF Next, Invoke, Reuse, Collect, AddRow, Gem5Fails, Kill, ZeroDivisionError,
                BeginOutputs, WriteRaw, WriteSummaryJson, WriteSummaryCsv, WriteThen, Write,
                vars, diskVars
  <2>. QED  BY <2>1
<1>. QED  BY <1>1, <1>2, <1>3

\* The marks of a directory go when gem5 opens its stats.txt, and only then.
LEMMA MarksStep ==
    ASSUME TypeOK, CaseInv, [Next]_vars, NEW d \in Dir
    PROVE  \/ /\ Gem5Opens /\ d = CurrentDir /\ marks'[d] = {}
              /\ dirs'[d].stats # Absent
           \/ /\ marks[d] \subseteq marks'[d]
              /\ "old" \in marks'[d] \ marks[d] => dirs[d].stats # Absent
              /\ "unopened" \in marks[d] \/ ~Launch \/ d # CurrentDir
                 \/ "unopened" \in marks'[d]
<1>1. CASE Gem5Opens
  <2>1. CurrentDir \in Dir  BY <1>1, CurrentTyped DEF Gem5Opens, CaseInv, Simulating
  <2>2. d = CurrentDir => marks'[d] = {}  BY <1>1, <2>1 DEF Gem5Opens, TypeOK
  <2>3. d # CurrentDir => marks'[d] = marks[d]  BY <1>1, <2>1 DEF Gem5Opens, TypeOK
  <2>4. d = CurrentDir => dirs'[d].stats # Absent
    BY <1>1, <2>1 DEF Gem5Opens, Leaves, TypeOK, Absent
  <2>. QED  BY <1>1, <2>2, <2>3, <2>4
<1>2. CASE Launch
  <2>1. CurrentDir \in Dir  BY <1>2, CurrentTyped DEF Launch, StartGem5
  <2>. QED  BY <1>2, <2>1 DEF Launch, StartGem5, TypeOK
<1>3. CASE EndInvocation /\ ~Launch
  <2>1. marks[d] \subseteq marks'[d]  BY <1>3 DEF EndInvocation, TypeOK
  <2>2. "old" \in marks'[d] \ marks[d] => dirs[d].stats # Absent
    BY <1>3 DEF EndInvocation, TypeOK
  <2>. QED  BY <1>3, <2>1, <2>2
<1>4. CASE ~(Gem5Opens \/ Launch \/ EndInvocation)
  <2>1. marks' = marks
    BY <1>4 DEF Next, Invoke, Reuse, Collect, AddRow, Gem5Dumps, Gem5Exits, Gem5Fails, Kill,
                ZeroDivisionError, BeginOutputs, WriteRaw, WriteSummaryJson, WriteSummaryCsv,
                WriteThen, vars, historyVars
  <2>. QED  BY <1>4, <2>1
<1>. QED  BY <1>1, <1>2, <1>3, <1>4

LEMMA DirStep == TypeOK /\ CaseInv /\ DirInv /\ [Next]_vars => DirInv'
BY StatsStep DEF DirInv

LEMMA OldStep ==
    TypeOK /\ CaseInv /\ OldInv /\ [Next]_vars => OldInv'
<1>. SUFFICES ASSUME TypeOK, CaseInv, OldInv, [Next]_vars, NEW d \in Dir,
                     "old" \in marks'[d]
              PROVE  dirs'[d].stats # Absent
  BY DEF OldInv
<1>1. dirs[d].stats # Absent \/ dirs'[d].stats # Absent  BY MarksStep DEF OldInv
<1>. QED  BY <1>1, StatsStep

LEMMA LaunchStep == TypeOK /\ CaseInv /\ LaunchInv /\ [Next]_vars => LaunchInv'
<1>. SUFFICES ASSUME TypeOK, CaseInv, LaunchInv, [Next]_vars, phase' = "launched"
              PROVE  LaunchInv'
  BY DEF LaunchInv
<1>1. CASE Launch
  <2>1. CurrentDir \in Dir  BY <1>1, CurrentTyped DEF Launch, StartGem5
  <2>2. CurrentDir' = CurrentDir /\ args' = args
    BY <1>1 DEF Launch, StartGem5, Current, RunDir
  <2>3. ~args.force => dirs[CurrentDir].stats = Absent
    BY <1>1, <2>1, StatsPresent DEF Launch, StartGem5, MustRun
  <2>4. dirs'[CurrentDir].stats = dirs[CurrentDir].stats
    BY <1>1, <2>1 DEF Launch, StartGem5, TypeOK
  <2>. QED  BY <2>2, <2>3, <2>4 DEF LaunchInv
<1>2. CASE ~Launch
  <2>1. UNCHANGED vars
    BY <1>2 DEF Next, Invoke, Reuse, Collect, AddRow, Gem5Opens, Gem5Dumps, Gem5Exits,
                Gem5Fails, Kill, ZeroDivisionError, BeginOutputs, WriteRaw, WriteSummaryJson,
                WriteSummaryCsv, WriteThen, EndInvocation
  <2>2. CurrentDir' = CurrentDir  BY <2>1 DEF vars, Current, RunDir
  <2>. QED  BY <2>1, <2>2 DEF LaunchInv, vars, diskVars
<1>. QED  BY <1>1, <1>2

-----------------------------------------------------------------------------
(* The rows, and where they come from.                                     *)

\* The rows are kept, dropped at the end, or extended by the current case's.
LEMMA RowsStep ==
    ASSUME TypeOK, CaseInv, [Next]_vars
    PROVE  \/ rows' = rows /\ (args' = args \/ phase = "idle")
           \/ EndInvocation /\ dirs' = dirs
           \/ /\ rows' = rows \cup {[case |-> Current, stats |-> CurrentStats]}
              /\ args' = args /\ dirs' = dirs /\ marks' = marks
              /\ Current \in Case /\ CurrentDir \in Dir /\ CurrentStats # Absent
              /\ \/ phase = "exited"
                 \/ ~args.force /\ phase = "case"
<1>1. CASE Reuse \/ Collect
  <2>1. /\ Current \in Case /\ CurrentDir \in Dir
        /\ AddRow /\ CurrentStats # Absent
    BY <1>1, RowsFromStats, CurrentTyped
  <2>. QED  BY <1>1, <2>1 DEF AddRow, Reuse, Collect, MustRun, diskVars, historyVars
<1>2. CASE ~(Reuse \/ Collect)
  BY <1>2 DEF Next, Invoke, Launch, StartGem5, Gem5Opens, Gem5Dumps, Gem5Exits, Leaves,
              Gem5Fails, Kill, ZeroDivisionError, BeginOutputs, WriteRaw, WriteSummaryJson,
              WriteSummaryCsv, WriteThen, Write, vars, diskVars
<1>. QED  BY <1>1, <1>2

LEMMA IdleStep == TypeOK /\ CaseInv /\ IdleInv /\ [Next]_vars => IdleInv'
BY DEF IdleInv, Next, Invoke, Reuse, Collect, AddRow, Launch, StartGem5, Gem5Opens, Gem5Dumps,
       Gem5Exits, Leaves, Gem5Fails, Kill, ZeroDivisionError, BeginOutputs, WriteRaw,
       WriteSummaryJson, WriteSummaryCsv, WriteThen, Write, EndInvocation, vars, diskVars,
       Outputs

\* Whatever an invocation leaves behind when it ends is old.
LEMMA OriginEnd ==
    ASSUME TypeOK, CaseInv, OriginInv, EndInvocation, dirs' = dirs
    PROVE  OriginInv'
<1>. SUFFICES ASSUME NEW d \in Dir, dirs[d].stats # Absent PROVE OldStats(d)'
  BY DEF OriginInv
<1>1. marks[d] \subseteq marks'[d] /\ "old" \in marks'[d]  BY DEF EndInvocation, TypeOK
<1>2. phase \in {"running", "dumping"} /\ d = CurrentDir => "stopped" \in marks'[d]
  BY DEF EndInvocation, TypeOK
<1>3. phase = "exited" /\ d = CurrentDir => dirs[d].stats.content \in Finished
  BY DEF CaseInv, Measured
<1>4. InRows(d) => dirs[d].stats.content \in Finished  BY DEF InRows, Measured
<1>5. OldStats(d) \/ AtWork(d) \/ InRows(d)  BY DEF OriginInv
<1>. QED  BY <1>1, <1>2, <1>3, <1>4, <1>5 DEF OldStats, AtWork

LEMMA OriginStep ==
    TypeOK /\ CaseInv /\ IdleInv /\ OriginInv /\ [Next]_vars => OriginInv'
<1>. SUFFICES ASSUME TypeOK, CaseInv, IdleInv, OriginInv, [Next]_vars PROVE OriginInv'
  OBVIOUS
<1>1. CASE EndInvocation /\ dirs' = dirs  BY <1>1, OriginEnd
<1>2. CASE Collect
  <2>1. /\ rows' = rows \cup {[case |-> Current, stats |-> CurrentStats]}
        /\ args' = args /\ dirs' = dirs /\ marks' = marks /\ phase = "exited"
    BY <1>2, RowsFromStats DEF Collect, AddRow, diskVars, historyVars
  <2>2. Measured([case |-> Current, stats |-> CurrentStats], args.config)
    BY <2>1 DEF CaseInv
  <2>3. ASSUME NEW d \in Dir, dirs[d].stats # Absent
        PROVE  OldStats(d)' \/ InRows(d)'
    <3>1. OldStats(d) => OldStats(d)'  BY <2>1 DEF OldStats
    <3>2. InRows(d) => InRows(d)'  BY <2>1 DEF InRows, Measured
    <3>3. AtWork(d) => InRows(d)'  BY <2>1, <2>2 DEF AtWork, InRows, Measured
    <3>. QED  BY <2>3, <3>1, <3>2, <3>3 DEF OriginInv
  <2>. QED  BY <2>1, <2>3 DEF OriginInv
<1>3. CASE Gem5Opens \/ Gem5Dumps \/ Gem5Exits
  <2>1. /\ CurrentDir' = CurrentDir /\ rows' = rows /\ args' = args
        /\ phase' \in {"running", "dumping", "exited"}
    BY <1>3 DEF Gem5Opens, Gem5Dumps, Gem5Exits, Leaves, Current, RunDir
  <2>2. ASSUME NEW d \in Dir, dirs'[d].stats # Absent, d # CurrentDir
        PROVE  OldStats(d)' \/ InRows(d)'
    <3>1. dirs'[d].stats = dirs[d].stats /\ marks[d] \subseteq marks'[d]
      BY <2>2, StatsStep, MarksStep
    <3>2. OldStats(d) \/ InRows(d)  BY <2>2, <3>1 DEF OriginInv, AtWork
    <3>. QED  BY <2>1, <3>1, <3>2 DEF OldStats, InRows, Measured
  <2>. QED  BY <2>1, <2>2 DEF OriginInv, AtWork
<1>4. CASE /\ ~(EndInvocation /\ dirs' = dirs) /\ ~Collect
           /\ ~(Gem5Opens \/ Gem5Dumps \/ Gem5Exits)
  <2>1. phase \in {"running", "dumping", "exited"} => UNCHANGED <<phase, todo>>
    BY <1>4 DEF Next, Invoke, Reuse, Launch, StartGem5, Gem5Fails, Kill, ZeroDivisionError,
                BeginOutputs, WriteRaw, WriteSummaryJson, WriteSummaryCsv, WriteThen, Write,
                vars, diskVars, Outputs
  <2>2. rows \subseteq rows' /\ (args' = args \/ rows = {})
    BY <1>4, RowsStep DEF IdleInv
  <2>3. ASSUME NEW d \in Dir, dirs'[d].stats # Absent
        PROVE  OldStats(d)' \/ AtWork(d)' \/ InRows(d)'
    <3>1. dirs'[d].stats = dirs[d].stats /\ marks[d] \subseteq marks'[d]
      BY <1>4, StatsStep, MarksStep
    <3>2. OldStats(d) => OldStats(d)'  BY <3>1 DEF OldStats
    <3>3. InRows(d) => InRows(d)'  BY <2>2, <3>1 DEF InRows, Measured
    <3>4. AtWork(d) => AtWork(d)'  BY <2>1 DEF AtWork, Current, RunDir
    <3>. QED  BY <2>3, <3>1, <3>2, <3>3, <3>4 DEF OriginInv
  <2>. QED  BY <2>3 DEF OriginInv
<1>. QED  BY <1>1, <1>2, <1>3, <1>4

\* What is in the directory of a case is of a case with the same label.
LEMMA SameDir ==
    ASSUME NEW c1 \in Case, NEW c2 \in Case, RunDir(c1) = RunDir(c2)
    PROVE  SameLabel(c1, c2)
BY DEF RunDir, SameLabel

\* Where the row of the current case comes from.
LEMMA NewRow ==
    ASSUME TypeOK, CaseInv, DirInv, OriginInv, NEW row,
           row = [case |-> Current, stats |-> CurrentStats],
           Current \in Case, CurrentDir \in Dir, CurrentStats # Absent,
           phase = "exited" \/ (~args.force /\ phase = "case")
    PROVE  \/ Measured(row, args.config)
           \/ ~args.force /\ (Borrowed(row) \/ Inherited(row))
<1>1. CASE phase = "exited"  BY <1>1 DEF CaseInv
<1>2. CASE ~args.force /\ phase = "case"
  <2>1. CurrentStats.case \in Case  BY StatsPresent DEF Stats
  <2>2. SameLabel(CurrentStats.case, Current)  BY <2>1, SameDir DEF DirInv
  <2>3. OldStats(CurrentDir) \/ InRows(CurrentDir)  BY <1>2 DEF OriginInv, AtWork
  <2>4. OldStats(CurrentDir) => Inherited(row)  BY <2>2 DEF OldStats, Inherited
  <2>5. InRows(CurrentDir) => Borrowed(row)
    BY <2>2 DEF InRows, Borrowed, Measured
  <2>. QED  BY <1>2, <2>3, <2>4, <2>5
<1>. QED  BY <1>1, <1>2

\* An inherited row stays one: nothing replaces the statistics without --force.
LEMMA InheritedStep ==
    ASSUME TypeOK, CaseInv, OldInv, LaunchInv, [Next]_vars, ~args.force,
           NEW row \in rows, Inherited(row)
    PROVE  Inherited(row)'
<1>1. RunDir(row.case) \in Dir  BY RunDirTyped DEF TypeOK, Row
<1>2. dirs[RunDir(row.case)].stats # Absent  BY <1>1 DEF Inherited, OldInv
<1>3. ~(Gem5Opens /\ RunDir(row.case) = CurrentDir)
  BY <1>2 DEF Gem5Opens, LaunchInv
<1>4. marks[RunDir(row.case)] \subseteq marks'[RunDir(row.case)]  BY <1>1, <1>3, MarksStep
<1>5. RunDir(row.case)' = RunDir(row.case)  BY DEF RunDir
<1>. QED  BY <1>4, <1>5 DEF Inherited, SameLabel

LEMMA TraceableStep ==
    /\ TypeOK /\ CaseInv /\ IdleInv /\ DirInv /\ OldInv /\ LaunchInv /\ OriginInv
    /\ RowsTraceable /\ [Next]_vars
    => RowsTraceable'
<1>. SUFFICES ASSUME TypeOK, CaseInv, IdleInv, DirInv, OldInv, LaunchInv, OriginInv,
                     RowsTraceable, [Next]_vars, NEW row \in rows'
              PROVE  \/ Measured(row, args'.config)
                     \/ ~args'.force /\ (Borrowed(row)' \/ Inherited(row)')
  BY DEF RowsTraceable, Measured
<1>1. args' = args /\ rows \subseteq rows'
  BY RowsStep DEF IdleInv, EndInvocation
<1>2. Borrowed(row) => Borrowed(row)'
  BY <1>1 DEF Borrowed, SameLabel, Measured
<1>3. CASE row \in rows
  <2>1. ~args.force /\ Inherited(row) => Inherited(row)'  BY <1>3, InheritedStep
  <2>. QED  BY <1>1, <1>2, <1>3, <2>1 DEF RowsTraceable
<1>4. CASE row \notin rows
  <2>1. /\ row = [case |-> Current, stats |-> CurrentStats]
        /\ Current \in Case /\ CurrentDir \in Dir /\ CurrentStats # Absent
        /\ phase = "exited" \/ (~args.force /\ phase = "case")
        /\ marks' = marks
    BY <1>4, RowsStep DEF EndInvocation
  <2>2. \/ Measured(row, args.config)
        \/ ~args.force /\ (Borrowed(row) \/ Inherited(row))
    BY <2>1, NewRow
  <2>3. Inherited(row) => Inherited(row)'  BY <2>1 DEF Inherited, SameLabel, RunDir
  <2>. QED  BY <1>1, <1>2, <2>2, <2>3
<1>. QED  BY <1>3, <1>4

-----------------------------------------------------------------------------
(* command.json, and the output files.                                     *)

LEMMA CommandStep == TypeOK /\ CaseInv /\ CommandTells /\ [Next]_vars => CommandTells'
<1>. SUFFICES ASSUME TypeOK, CaseInv, CommandTells, [Next]_vars, NEW d \in Dir,
                     dirs'[d].stats # Absent, "unopened" \notin marks'[d]
              PROVE  dirs'[d].command = [case |-> dirs'[d].stats.case,
                                         config |-> dirs'[d].stats.config]
  BY DEF CommandTells
<1>1. CASE d = CurrentDir /\ (Gem5Opens \/ Gem5Dumps \/ Gem5Exits)
  <2>1. dirs[d].command = [case |-> Current, config |-> args.config]
    BY <1>1 DEF CaseInv, Gem5Opens, Gem5Dumps, Gem5Exits, Simulating
  <2>2. PICK content \in Finished \cup {"empty", "partial"} : Leaves(content)
    BY <1>1 DEF Gem5Opens, Gem5Dumps, Gem5Exits
  <2>3. /\ dirs'[d].stats = [case |-> Current, config |-> args.config, content |-> content]
        /\ dirs'[d].command = dirs[d].command
    BY <1>1, <2>2 DEF Leaves, TypeOK
  <2>. QED  BY <2>1, <2>3
<1>2. CASE d = CurrentDir /\ Launch
  <2>1. "unopened" \in marks'[d]  BY <1>2 DEF Launch, StartGem5, TypeOK
  <2>. QED  BY <2>1
<1>3. CASE d # CurrentDir \/ ~(Launch \/ Gem5Opens \/ Gem5Dumps \/ Gem5Exits)
  <2>1. dirs'[d] = dirs[d]
    BY <1>3 DEF Next, Invoke, Reuse, Collect, AddRow, Launch, StartGem5, Gem5Opens, Gem5Dumps,
                Gem5Exits, Leaves, Gem5Fails, Kill, ZeroDivisionError, BeginOutputs, WriteRaw,
                WriteSummaryJson, WriteSummaryCsv, WriteThen, Write, vars, diskVars, TypeOK
  <2>2. "unopened" \notin marks[d]  BY <1>3, MarksStep
  <2>. QED  BY <2>1, <2>2 DEF CommandTells
<1>. QED  BY <1>1, <1>2, <1>3

\* A file is kept, or written with the rows and settings of the invocation.
LEMMA OutputStep ==
    ASSUME TypeOK, [Next]_vars, NEW f \in Outputs
    PROVE  files'[f] = files[f] \/ files'[f] = [args |-> args, rows |-> rows]
<1>1. CASE WriteRaw \/ WriteSummaryJson \/ WriteSummaryCsv
  BY <1>1 DEF WriteRaw, WriteSummaryJson, WriteSummaryCsv, WriteThen, Write, TypeOK
<1>2. CASE ~(WriteRaw \/ WriteSummaryJson \/ WriteSummaryCsv)
  BY <1>2 DEF Next, Invoke, Reuse, Collect, AddRow, Launch, StartGem5, Gem5Opens, Gem5Dumps,
              Gem5Exits, Leaves, Gem5Fails, Kill, ZeroDivisionError, BeginOutputs,
              EndInvocation, vars, diskVars
<1>. QED  BY <1>1, <1>2

LEMMA CleanStep ==
    TypeOK /\ RowsTraceable /\ ForcedResultsClean /\ [Next]_vars => ForcedResultsClean'
BY OutputStep DEF RowsTraceable, ForcedResultsClean, Measured

LEMMA FilesStep == TypeOK /\ FilesInv /\ FilesAgree /\ [Next]_vars => (FilesInv /\ FilesAgree)'
<1>. SUFFICES ASSUME TypeOK, FilesInv, FilesAgree, [Next]_vars PROVE (FilesInv /\ FilesAgree)'
  OBVIOUS
<1>1. CASE WriteRaw
  BY <1>1 DEF WriteRaw, WriteThen, Write, TypeOK, FilesInv, FilesAgree, Outputs
<1>2. CASE WriteSummaryJson
  BY <1>2 DEF WriteSummaryJson, WriteThen, Write, TypeOK, FilesInv, FilesAgree, Outputs
<1>3. CASE WriteSummaryCsv
  BY <1>3 DEF WriteSummaryCsv, Write, EndInvocation, TypeOK, FilesInv, FilesAgree, Outputs
<1>4. CASE Kill
  BY <1>4 DEF Kill, EndInvocation, FilesInv, FilesAgree, diskVars, Outputs, TypeOK
<1>5. CASE BeginOutputs
  BY <1>5 DEF BeginOutputs, FilesInv, FilesAgree, Outputs, diskVars
<1>6. CASE ~(WriteRaw \/ WriteSummaryJson \/ WriteSummaryCsv \/ Kill \/ BeginOutputs)
  BY <1>6 DEF Next, Invoke, Reuse, Collect, AddRow, Launch, StartGem5, Gem5Opens, Gem5Dumps,
         Gem5Exits, Leaves, Gem5Fails, ZeroDivisionError, EndInvocation, vars, diskVars,
         historyVars, FilesInv, FilesAgree, Outputs, Simulating
<1>. QED  BY <1>1, <1>2, <1>3, <1>4, <1>5, <1>6

-----------------------------------------------------------------------------
(* The inductive invariant, and the theorems.                              *)

IInv == /\ TypeOK /\ CaseInv /\ IdleInv /\ DirInv /\ OldInv /\ LaunchInv /\ OriginInv
        /\ FilesInv /\ RowsTraceable /\ CommandTells /\ ForcedResultsClean /\ FilesAgree

LEMMA InitIInv == Init => IInv
<1>. SUFFICES ASSUME Init PROVE IInv  OBVIOUS
<1>1. TypeOK
  <2>1. invocations \in 0..MaxInvocations  BY InvocationsAssumption DEF Init
  <2>2. dirs \in [Dir -> [command : Command \cup {NoCommand}, stats : Stats \cup {Absent}]]
    BY DEF Init
  <2>3. files \in [Outputs -> [args : Args \cup {NoArgs}, rows : SUBSET Row]]
    BY DEF Init, NoResult
  <2>4. marks \in [Dir -> SUBSET Mark] /\ torn \in BOOLEAN  BY DEF Init
  <2>. QED  BY <2>1, <2>2, <2>3, <2>4 DEF Init, TypeOK
<1>2. CaseInv /\ IdleInv /\ DirInv /\ OldInv /\ LaunchInv /\ OriginInv
  BY DEF Init, CaseInv, IdleInv, DirInv, OldInv, LaunchInv, OriginInv, Simulating
<1>3. FilesInv /\ RowsTraceable /\ CommandTells
  BY DEF Init, FilesInv, RowsTraceable, CommandTells
<1>4. ForcedResultsClean /\ FilesAgree
  BY DEF Init, ForcedResultsClean, FilesAgree, NoResult
<1>. QED  BY <1>1, <1>2, <1>3, <1>4 DEF IInv

LEMMA IInvStep == IInv /\ [Next]_vars => IInv'
BY TypeStep, CaseStep, IdleStep, DirStep, OldStep, LaunchStep, OriginStep, TraceableStep,
   CommandStep, CleanStep, FilesStep
   DEF IInv

LEMMA Invariant == Spec => []IInv
BY InitIInv, IInvStep, PTL DEF Spec

\* TypeOK: in particular no row is made of a stats.txt that does not exist.
THEOREM RunnerTyped == Spec => []TypeOK
<1>. IInv => TypeOK  BY DEF IInv
<1>. QED  BY Invariant, PTL

\* ForcedResultsClean: what a forced invocation reports, it has measured, also
\* when the labels of its cases coincide.
THEOREM ForcedResults == Spec => []ForcedResultsClean
<1>. IInv => ForcedResultsClean  BY DEF IInv
<1>. QED  BY Invariant, PTL

\* RowsTraceable: where the rows of any invocation come from, whatever Label
\* prints and whether or not a gem5 was stopped before.
THEOREM RowsTraced == Spec => []RowsTraceable
<1>. IInv => RowsTraceable  BY DEF IInv
<1>. QED  BY Invariant, PTL

\* CommandTells: what is behind a stats.txt can be read from its command.json.
THEOREM CommandsTell == Spec => []CommandTells
<1>. IInv => CommandTells  BY DEF IInv
<1>. QED  BY Invariant, PTL

\* FilesAgree: the three files come from the same rows.
THEOREM FilesConsistent == Spec => []FilesAgree
<1>. IInv => FilesAgree  BY DEF IInv
<1>. QED  BY Invariant, PTL
=============================================================================
