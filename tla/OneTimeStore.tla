----------------------------- MODULE OneTimeStore -----------------------------
(***************************************************************************)
(* What a single-use store promises its callers (the Store interface of    *)
(* captcha/store.go and the SessionStore interface of                      *)
(* passkey/session_store.go), with none of the mechanism: something put    *)
(* under an id can be taken out at most once and never after its expiry,   *)
(* an id names at most one thing at a time, and never more than MaxItems   *)
(* are held.  The store may forget anything at any time.                   *)
(*                                                                         *)
(* A ticket names one issue: two issues under one id are two tickets.      *)
(***************************************************************************)
EXTENDS Integers, FiniteSets

CONSTANTS Ids, Values, TTL, MaxItems

VARIABLES
  clock,      \* the wall clock the store reads
  held,       \* what is held: a set of [id, value, expires, ticket]
  issued,     \* how many tickets have been issued
  redeemed    \* the tickets that were handed out

oneTimeVars == <<clock, held, issued, redeemed>>

Tickets(S) == {e.ticket : e \in S}

Init ==
  /\ clock = 0
  /\ held = {}
  /\ issued = 0
  /\ redeemed = {}

Tick ==
  /\ clock' = clock + 1
  /\ UNCHANGED <<held, issued, redeemed>>

\* Everything but kept goes; the new thing is usable for at most TTL.
Issue(id, value) ==
  /\ issued' = issued + 1
  /\ \E kept \in SUBSET held, expires \in 0..(clock + TTL) :
       /\ \A e \in kept : e.id # id
       /\ Cardinality(kept) < MaxItems
       /\ held' = kept \cup {[id |-> id, value |-> value, expires |-> expires,
                              ticket |-> issued']}
  /\ UNCHANGED <<clock, redeemed>>

Redeem(e) ==
  /\ clock <= e.expires
  /\ held' = held \ {e}
  /\ redeemed' = redeemed \cup {e.ticket}
  /\ UNCHANGED <<clock, issued>>

Forget ==
  /\ held' \in SUBSET held
  /\ UNCHANGED <<clock, issued, redeemed>>

Next ==
  \/ Tick
  \/ \E id \in Ids, value \in Values : Issue(id, value)
  \/ \E e \in held : Redeem(e)
  \/ Forget

Spec == Init /\ [][Next]_oneTimeVars

\* What was handed out once is not held any more, so it cannot be handed out
\* again (captcha/store.go:10-33, passkey/session_store.go:14-35).
SingleUse == Tickets(held) \cap redeemed = {}
=============================================================================
