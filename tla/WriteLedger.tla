----------------------------- MODULE WriteLedger -----------------------------
(***************************************************************************)
(* What a metadata service promises about writes, with no tokens, keys or  *)
(* counts: it opens writes under ever larger counters of their line,       *)
(* resolves each once, publishes only upwards, and erases only epochs      *)
(* outside the window that no published version and no open write is in.   *)
(*                                                                         *)
(* One operation of a service may advance the epoch, open or resolve a     *)
(* write, and erase the epochs this sets free, all in one step.            *)
(***************************************************************************)
EXTENDS Integers

CONSTANTS Lines, RetentionW

VARIABLES
    epoch,
    top,      \* line -> largest counter ever handed out
    version,  \* line -> epoch and counter published, both 0 for none
    open,     \* writes begun and not resolved: line, epoch, counter
    erased

vars == <<epoch, top, version, open, erased>>

Init ==
    /\ epoch = 1
    /\ top = [l \in Lines |-> 0]
    /\ version = [l \in Lines |-> [epoch |-> 0, ctr |-> 0]]
    /\ open = {} /\ erased = {}

Open(l) ==
    /\ top'[l] > top[l]
    /\ top' = [top EXCEPT ![l] = top'[l]]
    /\ open' = open \cup {[line |-> l, epoch |-> epoch', ctr |-> top'[l]]}
    /\ UNCHANGED version

Drop(w) ==
    /\ open' = open \ {w}
    /\ UNCHANGED <<top, version>>

Publish(w) ==
    /\ w.ctr > version[w.line].ctr
    /\ version' = [version EXCEPT ![w.line] = [epoch |-> w.epoch, ctr |-> w.ctr]]
    /\ open' = open \ {w}
    /\ UNCHANGED top

\* What the operation leaves behind decides which epochs may go.
Erase == \A e \in erased' \ erased :
    /\ e + RetentionW <= epoch'
    /\ \A l \in Lines : version'[l].epoch # e
    /\ \A w \in open' : w.epoch # e

Next ==
    /\ epoch' \in {epoch, epoch + 1}
    /\ \/ \E l \in Lines : Open(l)
       \/ \E w \in open : Drop(w) \/ Publish(w)
       \/ UNCHANGED <<top, version, open>>
    /\ erased \subseteq erased' /\ Erase

Spec == Init /\ [][Next]_vars
=============================================================================
