----------------------------- MODULE FreshMemory -----------------------------
(***************************************************************************)
(* What the ticketed protocol promises a reader, with no keys, tickets or  *)
(* epochs: a memory of lines whose content is numbered by ever larger      *)
(* versions.  A read either fails or returns, once, content that was       *)
(* published and was current at some moment between its beginning and its  *)
(* end.                                                                    *)
(***************************************************************************)
EXTENDS Integers

CONSTANTS Lines, Reader, ReadId

VARIABLES
    current,    \* line -> version of the content now published, 0 for none
    published,  \* <<line, version>> ever published
    reading,    \* reads that have begun, with the version current at that time
    returned    \* reads that have returned a version

vars == <<current, published, reading, returned>>

Init ==
    /\ current = [l \in Lines |-> 0]
    /\ published = {}
    /\ reading = {}
    /\ returned = {}

\* Any larger version: version numbers may be skipped.
Publish(l) ==
    /\ current'[l] > current[l]
    /\ current' = [current EXCEPT ![l] = current'[l]]
    /\ published' = published \cup {<<l, current'[l]>>}
    /\ UNCHANGED <<reading, returned>>

Begin(t, n, l) ==
    /\ \A r \in reading \cup {x.read : x \in returned} : ~(r.tve = t /\ r.n = n)
    /\ reading' = reading \cup {[tve |-> t, n |-> n, line |-> l, floor |-> current[l]]}
    /\ UNCHANGED <<current, published, returned>>

Return(r, v) ==
    /\ <<r.line, v>> \in published
    /\ r.floor <= v /\ v <= current[r.line]
    /\ reading' = reading \ {r}
    /\ returned' = returned \cup {[read |-> r, version |-> v]}
    /\ UNCHANGED <<current, published>>

Fail(r) ==
    /\ reading' = reading \ {r}
    /\ UNCHANGED <<current, published, returned>>

Next ==
    \/ \E l \in Lines : Publish(l)
    \/ \E t \in Reader, n \in ReadId, l \in Lines : Begin(t, n, l)
    \/ \E r \in reading : Fail(r) \/ (\E p \in published : Return(r, p[2]))

Spec == Init /\ [][Next]_vars
=============================================================================
