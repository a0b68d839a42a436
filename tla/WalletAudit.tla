----------------------------- MODULE WalletAudit -----------------------------
(***************************************************************************)
(* The wallet collector (internal/wallet).  The command snapshots every    *)
(* wallet before it starts, a poller goroutine snapshots them while it     *)
(* works, and the command does twice more at the end: at once, and after   *)
(* the time the platform has to expire the holds.  Poller and command use  *)
(* the same tickAll, the same memory of holds seen and the same log.       *)
(*                                                                         *)
(* A tick reads a wallet and its pending holds, writes a snapshot, reads   *)
(* the holds again and writes an event for each hold whose state changed;  *)
(* the platform places and ends holds in between.                          *)
(***************************************************************************)
EXTENDS CreditNotes

CONSTANTS
    Customers,  \* customers with a wallet, by their place in the manifest
    Holds,      \* the holds the platform may place
    Owner,      \* the customer whose wallet a hold is on
    Balance,    \* the balance of every wallet
    MaxPolls    \* bound: ticks of the poller

ASSUME WalletAssumption ==
    /\ Customers \subseteq Nat
    /\ IsFiniteSet(Holds) /\ Owner \in [Holds -> Customers]
    /\ Balance \in Nat \ {0} /\ MaxPolls \in Nat

VARIABLES
    customers,  \* walletCustomersFromManifest: the wallets audited
    hold,       \* the platform's holds
    audit,      \* snapshots of wallet_audit.jsonl for a customer
    events,     \* hold events of wallet_audit.jsonl for a hold
    priorHolds, \* Collector.priorHolds: the holds seen
    tick,       \* the tickAll of the poller and of the command
    poller,     \* where the poller goroutine is
    pollCtx,    \* the poller's own context is cancelled
    polls       \* history: ticks of the poller

walletVars == <<customers, hold, audit, events, priorHolds, tick, poller, pollCtx, polls>>

\* A tickAll that is not running has no customer left.
NoTick == [phase |-> "none", left |-> {}, at |-> "snapshot"]

WalletInit(cs) ==
    /\ customers = cs
    /\ hold = [h \in Holds |-> "none"]
    /\ audit = [c \in cs |-> <<>>]
    /\ events = [h \in Holds |-> 0]
    /\ priorHolds = {}
    /\ tick = [p \in {"poller", "command"} |-> NoTick]
    /\ poller = "off" /\ pollCtx = FALSE /\ polls = 0

walletEnabled == customers # {}

Pending(c) == {h \in Holds : Owner[h] = c /\ hold[h] = "PENDING"}
First(S) == CHOOSE c \in S : \A d \in S : c <= d
Over(p) == ctxDone \/ (p = "poller" /\ pollCtx)

\* A failed read of the wallet is a row with no balance; a failed read of
\* the holds is a row with none held.
snapshot(c, phase, err) ==
    {[phase |-> phase, balance |-> IF err THEN 0 ELSE Balance, held |-> n] :
        n \in IF err THEN {0} ELSE {0, Cardinality(Pending(c))}}

StartTick(p, phase) == tick' = [tick EXCEPT ![p] = [phase |-> phase, left |-> customers, at |-> "snapshot"]]

\* The tick goes on to the next customer.
Past(t, c) == [phase |-> t.phase, left |-> t.left \ {c}, at |-> "snapshot"]

\* The context is looked at before each customer.
TickStops(p) ==
    /\ tick[p].phase # "none" /\ tick[p].at = "snapshot"
    /\ tick[p].left = {} \/ (Over(p) /\ tick[p].phase # "pre")

TickSnapshot(p) ==
    /\ tick[p].phase # "none" /\ tick[p].at = "snapshot" /\ tick[p].left # {}
    /\ ~TickStops(p)
    /\ LET c == First(tick[p].left) IN
          /\ \E err \in BOOLEAN : \E s \in snapshot(c, tick[p].phase, err) :
                /\ Over(p) => err
                /\ audit' = [audit EXCEPT ![c] = Append(@, s)]
          /\ tick' = [tick EXCEPT ![p] = IF @.phase = "pre" THEN Past(@, c)
                                                            ELSE [@ EXCEPT !.at = "holds"]]
    /\ UNCHANGED <<customers, hold, events, priorHolds, poller, pollCtx, polls>>

\* fetchHolds answers only pending holds: a hold is new or unchanged.
TickHolds(p) ==
    /\ tick[p].at = "holds"
    /\ LET c == First(tick[p].left) IN
          /\ \E seen \in {{}, IF Over(p) THEN {} ELSE Pending(c)} :
                /\ events' = [h \in Holds |-> events[h] + (IF h \in seen \ priorHolds THEN 1 ELSE 0)]
                /\ priorHolds' = priorHolds \cup seen
          /\ tick' = [tick EXCEPT ![p] = Past(@, c)]
    /\ UNCHANGED <<customers, hold, audit, poller, pollCtx, polls>>

tickAll(p) == TickSnapshot(p) \/ TickHolds(p)

\* Mutant of PollUntil: the end of the context is not noticed.
PollUntilDeaf ==
    /\ \/ /\ poller = "waiting" /\ polls < MaxPolls
          /\ StartTick("poller", "mid")
          /\ poller' = "ticking" /\ polls' = polls + 1
       \/ /\ poller = "waiting"
          /\ UNCHANGED <<poller, tick, polls>>
       \/ /\ poller = "ticking" /\ TickStops("poller")
          /\ tick' = [tick EXCEPT !["poller"] = NoTick]
          /\ poller' = "waiting" /\ UNCHANGED polls
    /\ UNCHANGED <<customers, hold, audit, events, priorHolds, pollCtx>>

\* PollUntil: a tick of the ticker, or the end of its context.
PollUntil ==
    /\ \/ /\ poller = "waiting" /\ polls < MaxPolls
          /\ StartTick("poller", "mid")
          /\ poller' = "ticking" /\ polls' = polls + 1
       \/ /\ poller = "waiting" /\ Over("poller")
          /\ poller' = "done" /\ UNCHANGED <<tick, polls>>
       \/ /\ poller = "ticking" /\ TickStops("poller")
          /\ tick' = [tick EXCEPT !["poller"] = NoTick]
          /\ poller' = "waiting" /\ UNCHANGED polls
    /\ UNCHANGED <<customers, hold, audit, events, priorHolds, pollCtx>>

PlatformHolds ==
    /\ \E h \in Holds : \/ /\ hold[h] = "none"
                           /\ hold' = [hold EXCEPT ![h] = "PENDING"]
                        \/ /\ hold[h] = "PENDING"
                           /\ hold' = [hold EXCEPT ![h] = "ended"]
    /\ UNCHANGED <<customers, audit, events, priorHolds, tick, poller, pollCtx, polls>>

-----------------------------------------------------------------------------
(***************************************************************************)
(* LoadAudit and check 17.  The number of holds left active is never read  *)
(* from the platform: it is 0 in every snapshot.                           *)
(***************************************************************************)
Phase(c, phase) == {k \in DOMAIN audit[c] : audit[c][k].phase = phase}
LastOf(c, phase, f) == IF Phase(c, phase) = {} THEN 0
                       ELSE audit[c][CHOOSE k \in Phase(c, phase) : \A j \in Phase(c, phase) : j <= k][f]

LoadAudit(c) ==
    [initial |-> LastOf(c, "pre", "balance"), final |-> LastOf(c, "post-expiry", "balance"),
     holdsLEBalance |-> \A k \in DOMAIN audit[c] : audit[c][k].held <= LastOf(c, "pre", "balance")]

runWalletLifecycle ==
    IF \A c \in customers : audit[c] = <<>> THEN "SKIP"
    ELSE IF \A c \in customers : audit[c] # <<>> =>
              /\ LoadAudit(c).holdsLEBalance
              /\ ~(LoadAudit(c).initial = 0 /\ LoadAudit(c).final = 0)
         THEN "PASS" ELSE "FAIL"
=============================================================================
