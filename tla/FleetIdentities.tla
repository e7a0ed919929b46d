---------------------------- MODULE FleetIdentities ----------------------------
(***************************************************************************)
(* What installing the fleet promises, without checkouts, remotes, locks   *)
(* or helpers: every host has one published identity, identities only move *)
(* forward, and a machine carries the identity that is published for it    *)
(* when it is installed.  A disk is erased only once an identity that it   *)
(* does not carry yet has been published for its host.                     *)
(***************************************************************************)
EXTENDS Naturals

CONSTANTS Hosts, Blank

VARIABLES published,  \* host -> the number of its published identity
          machine     \* host -> the identity on its disk, or Blank

vars == <<published, machine>>

Init == /\ published = [h \in Hosts |-> 0]
        /\ machine = [h \in Hosts |-> 0]

Rotate == /\ published' \in [Hosts -> Nat]
          /\ \A h \in Hosts : published'[h] >= published[h]
          /\ UNCHANGED machine

Erase(h) == /\ machine[h] # published[h]
            /\ machine' = [machine EXCEPT ![h] = Blank]
            /\ UNCHANGED published

Install(h) == /\ machine[h] = Blank
              /\ machine' = [machine EXCEPT ![h] = published[h]]
              /\ UNCHANGED published

Next == Rotate \/ \E h \in Hosts : Erase(h) \/ Install(h)

Spec == Init /\ [][Next]_vars
=============================================================================
