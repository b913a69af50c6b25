--------------------------- MODULE StoreContract ----------------------------
(***************************************************************************)
(* What gouncer.Store, authkit.InviteStore, AdminStore, SetupStore and     *)
(* TokenReaper promise of any store, as the contract suite in              *)
(* authkit/storetest checks it: each call is one change that lands whole   *)
(* or not at all.  It is AccountStore but for the sweep, which is promised *)
(* to take every account an expired invite strands and to spare the        *)
(* confirmed ones and those with a live invite; an account whose expired   *)
(* invite is revoked while the sweep runs is promised neither way.         *)
(***************************************************************************)
EXTENDS AccountStore

\* The accounts a sweep may take: unconfirmed, with no live invite.
Abandoned(at) ==
    {a \in Account :
        /\ Known(a) /\ ~users[a].confirmed
        /\ ~\E t \in tokens : t.user = a /\ t.purpose = "invite" /\ Live(t, at)}

PromisedSweep ==
    \E at \in Instant : \E gone \in SUBSET Abandoned(at) :
        Stranded(at) \subseteq gone /\ SweepTokens(at, gone)

PromisedNext ==
    \/ UserSteps \/ DisableSteps \/ SessionSteps \/ IssueSteps \/ RedeemSteps
    \/ PromisedSweep \/ Tick

Promised == Init /\ [][PromisedNext]_vars
=============================================================================
