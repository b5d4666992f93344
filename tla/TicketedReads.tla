---------------------------- MODULE TicketedReads ----------------------------
(***************************************************************************)
(* The ticketed read path of sim/cxl_ebfi_protocol.py, run together with   *)
(* the writes, ratchets and erasures of MetadataService.                   *)
(*                                                                         *)
(* A read is a request id of one TVE.  The service answers it with a       *)
(* ticket: a MAC over the line's version at that moment and the request.   *)
(* Tickets travel over an untrusted path, so a ticket once issued may      *)
(* arrive late, again, at another TVE or for another line.  The data come  *)
(* from the untrusted store, which may answer with any ciphertext ever     *)
(* sealed.  The calls of different hosts interleave.                       *)
(***************************************************************************)
EXTENDS MetadataService

CONSTANT MaxReads   \* bound on the reads each TVE begins
ASSUME MaxReadsAssumption == MaxReads \in Nat

ReadId == 1..MaxReads

VARIABLES
    ridCounter,   \* TVE -> last request id it made
    outstanding,  \* reads whose ticket has not been verified
    tickets,      \* every ticket ever issued
    verified,     \* reads with a verified version, before decryption
    accepted,     \* history: reads that returned data, and whose data
    published     \* history: tokens of the ciphertexts ever published

readVars == <<ridCounter, outstanding, tickets, verified, accepted>>
allVars == <<vars, readVars, published>>

\* "floor" is history: the counter of the line when the read began.
Read == [tve : Tves, n : ReadId, line : Lines, floor : Nat]
Ticket == [line : Lines, version : Version, tve : Tves, n : ReadId]

ReadsInit ==
    /\ Init
    /\ ridCounter = [t \in Tves |-> 0]
    /\ outstanding = {} /\ tickets = {} /\ verified = {}
    /\ accepted = {} /\ published = {}

-----------------------------------------------------------------------------
BeginRead(t, l) ==
    /\ t <= ntves /\ ridCounter[t] + 1 \in ReadId
    /\ ridCounter' = [ridCounter EXCEPT ![t] = @ + 1]
    /\ outstanding' = outstanding \cup
          {[tve |-> t, n |-> ridCounter[t] + 1, line |-> l, floor |-> auth[l].ctr]}
    /\ UNCHANGED <<vars, tickets, verified, accepted, published>>

\* Faulty: a ticket for a line never written.
TicketAnyLine(t, n, l) ==
    /\ t <= ntves /\ n <= ridCounter[t]
    /\ tickets' = tickets \cup {[line |-> l, version |-> auth[l], tve |-> t, n |-> n]}
    /\ UNCHANGED <<vars, ridCounter, outstanding, verified, accepted, published>>

\* read_ticketed: the service does not know which requests are outstanding, or
\* for which line; it signs the version it now has. Nor does it know which ids
\* have been made: that n is one of them is not tested by the code but assumed
\* of its callers, who take their ids from begin_read first, as all callers in
\* the repository do.
ReadTicketed(t, n, l) ==
    /\ t <= ntves /\ n <= ridCounter[t]
    /\ auth[l] # NoVersion
    /\ tickets' = tickets \cup {[line |-> l, version |-> auth[l], tve |-> t, n |-> n]}
    /\ UNCHANGED <<vars, ridCounter, outstanding, verified, accepted, published>>

\* Faulty: request ids are matched without the TVE they belong to.
MatchesAnyTve(k, t, l, rd) ==
    /\ k.line = l
    /\ rd \in outstanding /\ rd.tve = t /\ rd.n = k.n /\ rd.line = l

\* The checks of verify_ticket for a caller that is reading line l.
TicketMatches(k, t, l, rd) ==
    /\ k.line = l
    /\ k.tve = t
    /\ rd \in outstanding /\ rd.tve = k.tve /\ rd.n = k.n /\ rd.line = l

\* Faulty: the request stays outstanding.
VerifyKeepsRequest(k, t, l, rd) ==
    /\ TicketMatches(k, t, l, rd)
    /\ verified' = verified \cup {[read |-> rd, version |-> k.version]}
    /\ UNCHANGED <<vars, ridCounter, outstanding, tickets, accepted, published>>

\* verify_ticket: a match consumes the request; a mismatch leaves it alone.
VerifyTicket(k, t, l, rd) ==
    /\ TicketMatches(k, t, l, rd)
    /\ outstanding' = outstanding \ {rd}
    /\ verified' = verified \cup {[read |-> rd, version |-> k.version]}
    /\ UNCHANGED <<vars, ridCounter, tickets, accepted, published>>

\* cancel_read, which protocol_read calls after a rejected ticket.
CancelRead(rd) ==
    /\ outstanding' = outstanding \ {rd}
    /\ UNCHANGED <<vars, ridCounter, tickets, verified, accepted, published>>

\* AESGCM.decrypt under the key, the nonce and the AAD of the version succeeds
\* on a ciphertext sealed under the same ones.
Opens(t, l, v, r) ==
    /\ handles[t][v.epoch] = "held"
    /\ sealed[r.token] > 0
    /\ r.epoch = v.epoch /\ r.line = l /\ r.tve = v.writer
    /\ r.ctr % CtrLimit = v.ctr % CtrLimit

\* dec, given the ciphertext that was sealed under reservation r.
Accept(d, r) ==
    /\ Opens(d.read.tve, d.read.line, d.version, r)
    /\ verified' = verified \ {d}
    /\ accepted' = accepted \cup {[read |-> d.read, token |-> r.token]}
    /\ UNCHANGED <<vars, ridCounter, outstanding, tickets, published>>

\* The store answers nothing, or something that does not decrypt: the read is
\* rejected and its request id is spent.
Reject(d) ==
    /\ verified' = verified \ {d}
    /\ UNCHANGED <<vars, ridCounter, outstanding, tickets, accepted, published>>

\* A step of the service and the writers.
ServiceStep ==
    /\ Next
    /\ published' = published \cup ({store'[l] : l \in Lines} \ {NoData})
    /\ UNCHANGED readVars

ReadsNext ==
    \/ ServiceStep
    \/ \E t \in Tves, l \in Lines : BeginRead(t, l)
    \/ \E t \in Tves, n \in ReadId, l \in Lines : ReadTicketed(t, n, l)
    \/ \E k \in tickets, t \in Tves, l \in Lines, rd \in outstanding :
          VerifyTicket(k, t, l, rd)
    \/ \E rd \in outstanding : CancelRead(rd)
    \/ \E d \in verified, r \in issued : Accept(d, r)
    \/ \E d \in verified : Reject(d)

ReadsSpec == ReadsInit /\ [][ReadsNext]_allVars

-----------------------------------------------------------------------------
ReadsTypeOK ==
    /\ TypeOK
    /\ ridCounter \in [Tves -> 0..MaxReads]
    /\ outstanding \subseteq Read
    /\ tickets \subseteq Ticket
    /\ verified \subseteq [read : Read, version : Version]
    /\ accepted \subseteq [read : Read, token : Token]
    /\ published \subseteq Token

\* A read returns only content that was committed (never that of an aborted, an
\* expired or a refused late write), of its own line, and no older than the
\* version the line had when the read began: whatever old ciphertexts the store
\* returns and whichever old tickets arrive.
FreshRead == \A a \in accepted :
    /\ a.token \in published
    /\ \E r \in issued : /\ r.token = a.token
                         /\ r.line = a.read.line
                         /\ r.ctr >= a.read.floor
                         /\ r.ctr <= auth[r.line].ctr

\* A read whose version is still the line's opens what the store holds: only a
\* write that overtakes the read, or a store that withholds data, rejects it.
UnracedReadOpens == \A d \in verified :
    d.version = auth[d.read.line] =>
        \E r \in issued : /\ r.token = store[d.read.line]
                          /\ Opens(d.read.tve, d.read.line, d.version, r)

\* The protocol implements the fresh memory.
Memory == INSTANCE FreshMemory WITH
    Reader <- Tves,
    current <- [l \in Lines |-> auth[l].ctr],
    published <- {<<r.line, r.ctr>> : r \in {x \in issued : x.token \in published}},
    reading <- outstanding \cup {d.read : d \in verified},
    returned <- {[read |-> a.read,
                  version |-> (CHOOSE r \in issued : r.token = a.token).ctr] : a \in accepted}
ImplementsFreshMemory == Memory!Spec
=============================================================================
