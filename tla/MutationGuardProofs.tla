------------------------ MODULE MutationGuardProofs ------------------------
(***************************************************************************)
(* Mutual exclusion of the mutation guard, for every set of attempts on    *)
(* any hosts and every number of scans, failures and deaths, as long as no *)
(* live attempt takes an hour to write a claim.                            *)
(***************************************************************************)
EXTENDS MutationGuard, TLAPS

(***************************************************************************)
(* The inductive invariant, in named parts.                                *)
(***************************************************************************)
Choosing == {"count", "write", "open"}
Ticketed == {"choosing", "tickets", "hold"}
Live     == {"idle", "claim"} \cup Choosing \cup Ticketed

(* The claims a live attempt relies on are on disk and not retired.        *)
Claimed(n) ==
  /\ pc[n] = "claim" => claim["choosing"][n] = "torn"
  /\ pc[n] \in Choosing => claim["choosing"][n] = "whole"
  /\ pc[n] \in {"idle", "claim"} \cup Choosing => <<"choosing", n>> \notin cancelled
  /\ pc[n] = "write" => claim["ticket"][n] = "torn"
  /\ pc[n] \in {"open"} \cup Ticketed => claim["ticket"][n] = "whole"
  /\ pc[n] \in Live => <<"ticket", n>> \notin cancelled

(* Once n has its ticket, m cannot get in before it: m is not competing,    *)
(* has seen the number of n or has still to read it, or has a later ticket. *)
Behind(m, n) ==
  /\ pc[m] = "count" => n \in todo[m] \/ best[m] >= number[n]
  /\ pc[m] \in {"write", "open"} \cup Ticketed => Before(n, m)

(* What the scans of n have established about m so far. *)
Passed(m, n) == pc[m] \in Ticketed \/ Behind(m, n)

Cleared(m, n) ==
  /\ pc[n] = "choosing" => \/ m \in todo[n]
                           \/ "busy" \in seen[n]
                           \/ Passed(m, n)
  /\ pc[n] = "tickets" => \/ seen[n] \cap {"busy", "behind"} # {}
                          \/ m \in todo[n] /\ Passed(m, n)
                          \/ Behind(m, n)
  /\ pc[n] = "hold" => Behind(m, n)

Claims == \A n \in Nonce : Claimed(n)
Order  == \A m, n \in Nonce : m # n => Cleared(m, n)

Bakery == TypeOK /\ Claims /\ Order

(* Whoever is about to unlink an entry for its age has still to pass it,    *)
(* and it is one that a dead attempt had not finished writing.             *)
Doomed(n) ==
  doomed[n] # {} =>
    /\ pc[n] \in {"count", "choosing", "tickets"}
    /\ \A m \in doomed[n] :
         /\ m \in todo[n] /\ pc[m] = "dead"
         /\ \A k \in Kind : Reading(n, k) => claim[k][m] # "whole"

Reaping == \A n \in Nonce : Doomed(n)
-----------------------------------------------------------------------------
(***************************************************************************)
(* Frames: what a step of one attempt leaves alone of the others.          *)
(***************************************************************************)
(* A step of x does not move n, and takes from its claims only a retired    *)
(* one or one of a dead attempt.                                           *)
Spares(n) ==
  /\ pc'[n] = pc[n]
  /\ \A k \in Kind :
       /\ <<k, n>> \in cancelled' <=> <<k, n>> \in cancelled
       /\ \/ claim'[k][n] = claim[k][n]
          \/ claim[k][n] = "whole" /\ <<k, n>> \in cancelled
          \/ pc[n] = "dead"

(* A step leaves what n remembers, its number and its place alone. *)
Still(n) ==
  /\ pc'[n] = pc[n] /\ todo'[n] = todo[n] /\ best'[n] = best[n]
  /\ seen'[n] = seen[n] /\ number'[n] = number[n]

LEMMA SparedClaims ==
  ASSUME NEW n \in Nonce, Claimed(n), Spares(n)
  PROVE  Claimed(n)'
BY DEF Claimed, Spares, Choosing, Ticketed, Live, Kind

LEMMA StillCleared ==
  ASSUME NEW m \in Nonce, NEW n \in Nonce, Cleared(m, n), Still(m), Still(n)
  PROVE  Cleared(m, n)'
BY DEF Cleared, Passed, Behind, Before, Still, Choosing, Ticketed

(* It is enough to look at the attempt that moves. *)
LEMMA OneMoves ==
  ASSUME Bakery, TypeOK', NEW x \in Nonce, Claimed(x)',
         \A n \in Nonce \ {x} : Spares(n) /\ Still(n),
         \A n \in Nonce \ {x} : Cleared(x, n)' /\ Cleared(n, x)'
  PROVE  Bakery'
<1>1. ASSUME NEW n \in Nonce PROVE Claimed(n)'
  BY SparedClaims DEF Bakery, Claims
<1>2. ASSUME NEW m \in Nonce, NEW n \in Nonce, m # n PROVE Cleared(m, n)'
  <2>1. CASE m = x \/ n = x
    BY <1>2, <2>1
  <2>2. CASE m # x /\ n # x
    BY <1>2, <2>2, StillCleared DEF Bakery, Order
  <2> QED BY <2>1, <2>2
<1> QED BY <1>1, <1>2 DEF Bakery, Claims, Order

(* Two tickets are in order, one way or the other. *)
LEMMA Ordered ==
  ASSUME TypeOK, NEW m \in Nonce, NEW n \in Nonce, m # n
  PROVE  /\ Before(m, n) \/ Before(n, m)
         /\ ~(Before(m, n) /\ Before(n, m))
BY NonceAssumption DEF TypeOK, Before
-----------------------------------------------------------------------------
(* Nothing is claimed at the start. *)
LEMMA InitBakery == Init => Bakery
<1> SUFFICES ASSUME Init PROVE Bakery
  OBVIOUS
<1>1. TypeOK
  BY DEF Init, TypeOK, Label, Sight, Kind
<1>2. Claims
  BY DEF Init, Claims, Claimed, Choosing, Ticketed, Live
<1>3. Order
  BY DEF Init, Order, Cleared
<1> QED BY <1>1, <1>2, <1>3 DEF Bakery

(* A step that only leaves x with a place where it does not compete.       *)
LEMMA Retires ==
  ASSUME Bakery, TypeOK', NEW x \in Nonce, Claimed(x)',
         \A n \in Nonce \ {x} : Spares(n) /\ Still(n),
         pc'[x] \in {"idle", "claim", "quit", "resign", "done", "dead"}
  PROVE  Bakery'
<1>1. ASSUME NEW n \in Nonce \ {x} PROVE Cleared(x, n)' /\ Cleared(n, x)'
  <2>1. Behind(x, n)'
    BY DEF Behind, Ticketed
  <2> QED BY <2>1 DEF Cleared, Passed
<1> QED BY <1>1, OneMoves

LEMMA TypedClaim ==
  ASSUME TypeOK, NEW k \in Kind, NEW n \in Nonce, NEW v \in {"none", "torn", "whole"}
  PROVE  LET new == [claim EXCEPT ![k][n] = v]
         IN /\ new \in [Kind -> [Nonce -> {"none", "torn", "whole"}]]
            /\ new[k][n] = v
            /\ \A j \in Kind, m \in Nonce : <<j, m>> # <<k, n>> => new[j][m] = claim[j][m]
BY DEF TypeOK

LEMMA ForgetType ==
  ASSUME TypeOK, NEW x \in Nonce, Forget(x)
  PROVE  /\ todo' \in [Nonce -> SUBSET Nonce] /\ todo'[x] = {}
         /\ doomed' \in [Nonce -> SUBSET Nonce] /\ doomed'[x] = {}
         /\ best' \in [Nonce -> Nat] /\ best'[x] = 0
         /\ seen' \in [Nonce -> SUBSET Sight] /\ seen'[x] = {}
         /\ tries' \in [Nonce -> Nat]
         /\ \A n \in Nonce \ {x} :
              /\ todo'[n] = todo[n] /\ doomed'[n] = doomed[n]
              /\ best'[n] = best[n] /\ seen'[n] = seen[n]
BY DEF TypeOK, Forget

LEMMA GotoType ==
  ASSUME TypeOK, NEW x \in Nonce, NEW l \in Label, Goto(x, l)
  PROVE  /\ pc' \in [Nonce -> Label] /\ pc'[x] = l
         /\ \A n \in Nonce \ {x} : pc'[n] = pc[n]
BY DEF TypeOK, Goto
-----------------------------------------------------------------------------
(***************************************************************************)
(* Publishing the claims.                                                  *)
(***************************************************************************)
LEMMA ClaimKeeps ==
  ASSUME Bakery, NEW x \in Nonce, Claim(x)
  PROVE  Bakery'
<1> USE DEF Bakery
<1>1. /\ claim' = [claim EXCEPT !["choosing"][x] = "torn"] /\ "choosing" \in Kind
      /\ pc[x] = "idle" /\ Goto(x, "claim") /\ "claim" \in Label
      /\ UNCHANGED <<number, cancelled, memory, spent>>
  BY DEF Claim, Kind, Label
<1>2. TypeOK'
  BY <1>1, TypedClaim, GotoType DEF TypeOK, memory, spent
<1>3. Claimed(x)'
  BY <1>1, TypedClaim, GotoType DEF Claims, Claimed, memory, Choosing, Ticketed, Live
<1>4. \A n \in Nonce \ {x} : Spares(n) /\ Still(n)
  BY <1>1, TypedClaim, GotoType DEF Spares, Still, memory
<1> QED BY <1>1, <1>2, <1>3, <1>4, GotoType, Retires

LEMMA FillClaimKeeps ==
  ASSUME Bakery, NEW x \in Nonce, FillClaim(x)
  PROVE  Bakery'
<1> USE DEF Bakery
<1>1. /\ claim' = [claim EXCEPT !["choosing"][x] = "whole"] /\ "choosing" \in Kind
      /\ pc[x] = "claim" /\ Goto(x, "count") /\ "count" \in Label
      /\ todo' = [todo EXCEPT ![x] = Nonce \ {x}]
      /\ UNCHANGED <<number, cancelled, doomed, best, seen, tries, spent>>
  BY DEF FillClaim, Scan, Kind, Label, Claims, Claimed, TypeOK
<1>2. TypeOK'
  BY <1>1, TypedClaim, GotoType DEF TypeOK, spent
<1>3. Claimed(x)'
  BY <1>1, TypedClaim, GotoType DEF Claims, Claimed, Choosing, Ticketed, Live
<1>4. \A n \in Nonce \ {x} : Spares(n) /\ Still(n)
  BY <1>1, TypedClaim, GotoType DEF Spares, Still, TypeOK
<1>5. ASSUME NEW n \in Nonce \ {x} PROVE Cleared(x, n)' /\ Cleared(n, x)'
  <2>1. n \in todo'[x] /\ pc'[x] = "count"
    BY <1>1, GotoType DEF TypeOK
  <2>2. Behind(x, n)'
    BY <2>1 DEF Behind, Ticketed
  <2> QED BY <2>1, <2>2 DEF Cleared, Passed
<1> QED BY <1>2, <1>3, <1>4, <1>5, OneMoves

(* What holds of m as seen by n follows m forward.                         *)
LEMMA Advance ==
  ASSUME Bakery, NEW x \in Nonce, NEW n \in Nonce \ {x}, Still(n),
         pc[n] \in Ticketed /\ Passed(x, n) => Passed(x, n)',
         pc[n] \in Ticketed /\ Behind(x, n) => Behind(x, n)'
  PROVE  Cleared(x, n)'
BY DEF Bakery, Order, Cleared, Still, Ticketed

LEMMA NumberTicketKeeps ==
  ASSUME Bakery, NEW x \in Nonce, NumberTicket(x)
  PROVE  Bakery'
<1> USE DEF Bakery
<1>1. /\ claim' = [claim EXCEPT !["ticket"][x] = "torn"] /\ "ticket" \in Kind
      /\ pc[x] = "count" /\ Goto(x, "write") /\ "write" \in Label /\ todo[x] = {}
      /\ number' = [number EXCEPT ![x] = best[x] + 1]
      /\ Forget(x)
      /\ UNCHANGED <<cancelled, spent>>
  BY DEF NumberTicket, Kind, Label
<1>2. TypeOK'
  BY <1>1, TypedClaim, GotoType, ForgetType DEF TypeOK, spent
<1>3. Claimed(x)'
  BY <1>1, TypedClaim, GotoType, ForgetType
     DEF Claims, Claimed, Choosing, Ticketed, Live, Kind
<1>4. ASSUME NEW n \in Nonce \ {x} PROVE Spares(n) /\ Still(n)
  <2>1. \A k \in Kind : claim'[k][n] = claim[k][n]
    BY <1>1, TypedClaim
  <2> QED BY <1>1, <2>1, GotoType, ForgetType DEF Spares, Still, TypeOK
<1>5. ASSUME NEW n \in Nonce \ {x} PROVE Cleared(x, n)' /\ Cleared(n, x)'
  <2>1. pc'[x] = "write" /\ number'[x] = best[x] + 1 /\ number'[n] = number[n]
    BY <1>1, GotoType DEF TypeOK
  <2>2. Behind(x, n) => Behind(x, n)'
    BY <1>1, <2>1 DEF Behind, Before, TypeOK, Ticketed
  <2>3. Passed(x, n) => Passed(x, n)'
    BY <1>1, <2>2 DEF Passed, Ticketed
  <2> QED BY <1>4, <2>1, <2>2, <2>3, Advance DEF Cleared
<1> QED BY <1>2, <1>3, <1>4, <1>5, OneMoves

LEMMA WriteTicketKeeps ==
  ASSUME Bakery, NEW x \in Nonce, WriteTicket(x)
  PROVE  Bakery'
<1> USE DEF Bakery
<1>1. /\ claim["ticket"][x] = "torn"
      /\ claim' = [claim EXCEPT !["ticket"][x] = "whole"] /\ "ticket" \in Kind
      /\ pc[x] = "write" /\ Goto(x, "open") /\ "open" \in Label
      /\ UNCHANGED <<number, cancelled, memory, spent>>
  BY DEF WriteTicket, Kind, Label, Claims, Claimed, TypeOK
<1>2. TypeOK'
  BY <1>1, TypedClaim, GotoType DEF TypeOK, memory, spent
<1>3. Claimed(x)'
  BY <1>1, TypedClaim, GotoType DEF Claims, Claimed, Choosing, Ticketed, Live, Kind, memory
<1>4. ASSUME NEW n \in Nonce \ {x} PROVE Spares(n) /\ Still(n)
  <2>1. \A k \in Kind : claim'[k][n] = claim[k][n]
    BY <1>1, TypedClaim
  <2> QED BY <1>1, <2>1, GotoType DEF Spares, Still, TypeOK, memory
<1>5. ASSUME NEW n \in Nonce \ {x} PROVE Cleared(x, n)' /\ Cleared(n, x)'
  <2>1. pc'[x] = "open" /\ number' = number
    BY <1>1, GotoType
  <2>2. Behind(x, n) => Behind(x, n)'
    BY <1>1, <2>1 DEF Behind, Before, Ticketed
  <2>3. Passed(x, n) => Passed(x, n)'
    BY <1>1, <2>2 DEF Passed, Ticketed
  <2> QED BY <1>4, <2>1, <2>2, <2>3, Advance DEF Cleared
<1> QED BY <1>2, <1>3, <1>4, <1>5, OneMoves
-----------------------------------------------------------------------------
(***************************************************************************)
(* Withdrawing claims.                                                     *)
(***************************************************************************)
LEMMA Withdrawn ==
  ASSUME TypeOK, NEW k \in Kind, NEW x \in Nonce,
         Withdraw(k, x) \/ WithdrawIfThere(k, x), UNCHANGED number
  PROVE  /\ claim' \in [Kind -> [Nonce -> {"none", "torn", "whole"}]]
         /\ cancelled' \subseteq Kind \X Nonce
         /\ failures' \in Nat /\ exits' \in Nat
         /\ \A n \in Nonce : claim'["ticket"][n] # "none" => number'[n] > 0
         /\ \A j \in Kind, n \in Nonce : <<j, n>> # <<k, x>> =>
              /\ claim'[j][n] = claim[j][n]
              /\ <<j, n>> \in cancelled' <=> <<j, n>> \in cancelled
<1>1. CASE claim' = [claim EXCEPT ![k][x] = "none"] /\ UNCHANGED <<cancelled, spent>>
  BY <1>1, TypedClaim DEF TypeOK, spent, Kind
<1>2. CASE /\ failures' = failures + 1
           /\ cancelled' = cancelled \cup {<<k, x>>}
           /\ UNCHANGED <<claim, exits>>
  BY <1>2 DEF TypeOK, Kind
<1>3. CASE UNCHANGED <<claim, cancelled, spent>>
  BY <1>3 DEF TypeOK, spent, Kind
<1> QED BY <1>1, <1>2, <1>3 DEF Withdraw, WithdrawIfThere

LEMMA OpenKeeps ==
  ASSUME Bakery, NEW x \in Nonce, Open(x)
  PROVE  Bakery'
<1> USE DEF Bakery
<1>1. /\ pc[x] = "open" /\ claim["choosing"][x] # "none" /\ "choosing" \in Kind
      /\ Withdraw("choosing", x) /\ Goto(x, "choosing") /\ "choosing" \in Label
      /\ todo' = [todo EXCEPT ![x] = Nonce \ {x}]
      /\ UNCHANGED <<number, doomed, best, seen, tries>>
  BY DEF Open, Scan, Claims, Claimed, Choosing, Kind, Label
<1>2. TypeOK'
  BY <1>1, Withdrawn, GotoType DEF TypeOK
<1>3. Claimed(x)'
  BY <1>1, Withdrawn, GotoType DEF Claims, Claimed, Choosing, Ticketed, Live, Kind
<1>4. ASSUME NEW n \in Nonce \ {x} PROVE Spares(n) /\ Still(n)
  <2>1. \A k \in Kind : /\ claim'[k][n] = claim[k][n]
                        /\ <<k, n>> \in cancelled' <=> <<k, n>> \in cancelled
    BY <1>1, Withdrawn
  <2> QED BY <1>1, <2>1, GotoType DEF Spares, Still, TypeOK
<1>5. ASSUME NEW n \in Nonce \ {x} PROVE Cleared(x, n)' /\ Cleared(n, x)'
  <2>1. pc'[x] = "choosing" /\ number' = number /\ n \in todo'[x]
    BY <1>1, GotoType DEF TypeOK
  <2>2. Behind(x, n) => Behind(x, n)'
    BY <1>1, <2>1 DEF Behind, Before, Ticketed
  <2>3. Passed(x, n) => Passed(x, n)'
    BY <1>1, <2>1 DEF Passed, Ticketed
  <2> QED BY <1>4, <2>1, <2>2, <2>3, Advance DEF Cleared
<1> QED BY <1>2, <1>3, <1>4, <1>5, OneMoves

(* Leaving, and giving up after a failure. *)
LEMMA WithdrawalKeeps ==
  ASSUME Bakery, NEW x \in Nonce, Leave(x) \/ Quit(x) \/ Resign(x)
  PROVE  Bakery'
<1> USE DEF Bakery
<1>1. PICK k \in Kind, l \in {"resign", "done"} :
        WithdrawIfThere(k, x) /\ Goto(x, l) /\ UNCHANGED <<number, memory>>
  BY DEF Leave, Quit, Resign, Kind
<1>2. l \in Label
  BY DEF Label
<1>3. TypeOK'
  BY <1>1, <1>2, Withdrawn, GotoType DEF TypeOK, memory
<1>4. Claimed(x)'
  BY <1>1, <1>2, GotoType DEF Claims, Claimed, Choosing, Ticketed, Live, memory
<1>5. ASSUME NEW n \in Nonce \ {x} PROVE Spares(n) /\ Still(n)
  <2>1. \A j \in Kind : /\ claim'[j][n] = claim[j][n]
                        /\ <<j, n>> \in cancelled' <=> <<j, n>> \in cancelled
    BY <1>1, Withdrawn
  <2> QED BY <1>1, <1>2, <2>1, GotoType DEF Spares, Still, memory
<1> QED BY <1>1, <1>2, <1>3, <1>4, <1>5, GotoType, Retires

(* Whatever stops an attempt without touching the claims of another. *)
LEMMA StopKeeps ==
  ASSUME Bakery, NEW x \in Nonce, NEW l \in {"quit", "done", "dead"},
         Goto(x, l), Forget(x), UNCHANGED <<number, cancelled>>,
         failures' \in Nat, exits' \in Nat,
         \/ claim' = claim
         \/ \E k \in Kind : claim' = [claim EXCEPT ![k][x] = "none"]
  PROVE  Bakery'
<1> USE DEF Bakery
<1>1. l \in Label
  BY DEF Label
<1>2. /\ claim' \in [Kind -> [Nonce -> {"none", "torn", "whole"}]]
      /\ \A n \in Nonce : claim'["ticket"][n] # "none" => number'[n] > 0
      /\ \A n \in Nonce \ {x}, j \in Kind : claim'[j][n] = claim[j][n]
  <2>1. CASE claim' = claim
    BY <2>1 DEF TypeOK
  <2>2. ASSUME NEW k \in Kind, claim' = [claim EXCEPT ![k][x] = "none"]
        PROVE  /\ claim' \in [Kind -> [Nonce -> {"none", "torn", "whole"}]]
               /\ \A n \in Nonce : claim'["ticket"][n] # "none" => number'[n] > 0
               /\ \A n \in Nonce \ {x}, j \in Kind : claim'[j][n] = claim[j][n]
    BY <2>2, TypedClaim DEF TypeOK, Kind
  <2> QED BY <2>1, <2>2
<1>3. TypeOK'
  BY <1>1, <1>2, GotoType, ForgetType DEF TypeOK
<1>4. Claimed(x)'
  BY <1>1, GotoType, ForgetType DEF Claimed, Choosing, Ticketed, Live
<1>5. \A n \in Nonce \ {x} : Spares(n) /\ Still(n)
  BY <1>1, <1>2, GotoType, ForgetType DEF Spares, Still
<1> QED BY <1>1, <1>3, <1>4, <1>5, GotoType, Retires

LEMMA RaiseKeeps ==
  ASSUME Bakery, NEW x \in Nonce, Raise(x), UNCHANGED spent
  PROVE  Bakery'
BY StopKeeps DEF Raise, spent, Bakery, TypeOK

LEMMA FailKeeps ==
  ASSUME Bakery, NEW x \in Nonce, Fail(x)
  PROVE  Bakery'
<1>1. /\ failures' = failures + 1 /\ failures \in Nat /\ exits' = exits /\ exits \in Nat
      /\ Forget(x) /\ UNCHANGED <<number, cancelled>>
      /\ Goto(x, "quit") \/ Goto(x, "done")
  BY DEF Fail, Bakery, TypeOK
<1>2. \/ claim' = claim
      \/ \E k \in Kind : claim' = [claim EXCEPT ![k][x] = "none"]
  BY DEF Fail, Kind, Removed
<1> QED BY <1>1, <1>2, StopKeeps

LEMMA ExitKeeps ==
  ASSUME Bakery, NEW x \in Nonce, Exit(x)
  PROVE  Bakery'
<1>1. /\ exits' = exits + 1 /\ exits \in Nat /\ failures' = failures /\ failures \in Nat
      /\ Forget(x) /\ Goto(x, "dead") /\ UNCHANGED <<claim, number, cancelled>>
  BY DEF Exit, Bakery, TypeOK
<1> QED BY <1>1, StopKeeps
-----------------------------------------------------------------------------
(***************************************************************************)
(* Scanning.                                                               *)
(***************************************************************************)
(* An entry that does not count is not one of a competing attempt's.       *)
LEMMA NotCompeting ==
  ASSUME Bakery, NEW x \in Nonce, NEW k \in Kind, NEW m \in Nonce \ {x},
         Disregarded(x, k, m) \/ pc[m] = "dead"
  PROVE  /\ k = "choosing" => pc[m] \notin {"claim"} \cup Choosing
         /\ k = "ticket" => pc[m] \notin Ticketed
BY DEF Disregarded, Orphan, Bakery, Claims, Claimed, Choosing, Ticketed, Live

LEMMA DisregardKeeps ==
  ASSUME Bakery, NEW x \in Nonce, NEW k \in Kind, NEW m \in Nonce,
         Reading(x, k), m \in todo[x],
         Disregarded(x, k, m) \/ (pc[m] = "dead" /\ Removed(k, m)), Pass(x, m),
         doomed' \in [Nonce -> SUBSET Nonce],
         UNCHANGED <<pc, best, seen, tries, number, cancelled, spent>>
  PROVE  Bakery'
<1> USE DEF Bakery
<1>1. /\ \/ claim' = claim
         \/ /\ (claim[k][m] = "whole" /\ <<k, m>> \in cancelled) \/ pc[m] = "dead"
            /\ claim' = [claim EXCEPT ![k][m] = "none"]
      /\ todo' = [todo EXCEPT ![x] = @ \ {m}]
      /\ pc[x] \in {"count", "choosing", "tickets"}
  BY DEF Disregarded, Orphan, Removed, Pass, Reading
<1>2. /\ claim' \in [Kind -> [Nonce -> {"none", "torn", "whole"}]]
      /\ \A j \in Kind, n \in Nonce :
           \/ claim'[j][n] = claim[j][n]
           \/ /\ j = k /\ n = m
              /\ (claim[k][m] = "whole" /\ <<k, m>> \in cancelled) \/ pc[m] = "dead"
  <2>1. CASE claim' = claim
    BY <2>1 DEF TypeOK
  <2>2. CASE /\ (claim[k][m] = "whole" /\ <<k, m>> \in cancelled) \/ pc[m] = "dead"
             /\ claim' = [claim EXCEPT ![k][m] = "none"]
    BY <2>2, TypedClaim
  <2> QED BY <1>1, <2>1, <2>2
<1>3. TypeOK'
  BY <1>1, <1>2 DEF TypeOK, spent, Kind
<1>4. ASSUME NEW n \in Nonce PROVE Spares(n)
  BY <1>1, <1>2 DEF Spares, TypeOK
<1>5. Claimed(x)'
  BY <1>4, SparedClaims DEF Claims
<1>6. ASSUME NEW n \in Nonce \ {x} PROVE Still(n)
  BY <1>1 DEF Still, TypeOK
<1>7. ASSUME NEW n \in Nonce \ {x} PROVE Cleared(x, n)' /\ Cleared(n, x)'
  <2>1. /\ pc' = pc /\ number' = number /\ best' = best /\ seen' = seen
        /\ \A o \in Nonce : o # m => (o \in todo'[x] <=> o \in todo[x])
        /\ todo'[n] = todo[n]
    BY <1>1, <1>6 DEF TypeOK, Still
  <2>2. ASSUME pc[n] \in Ticketed, Behind(x, n) PROVE Behind(x, n)'
    <3>1. pc[x] = "count" => k = "ticket"
      BY DEF Reading
    <3>2. pc[x] = "count" => n # m
      BY <2>2, <3>1, NotCompeting
    <3> QED BY <2>1, <2>2, <3>2 DEF Behind, Before
  <2>3. pc[n] \in Ticketed /\ Passed(x, n) => Passed(x, n)'
    BY <2>1, <2>2 DEF Passed
  <2>4. Cleared(x, n)'
    BY <1>6, <2>2, <2>3, Advance
  <2>5. /\ Behind(n, x) => Behind(n, x)'
        /\ Passed(n, x) => Passed(n, x)'
    BY <2>1 DEF Behind, Before, Passed
  <2>6. CASE n # m
    BY <2>1, <2>4, <2>5, <2>6 DEF Cleared, Order
  <2>7. CASE n = m /\ pc[x] = "choosing"
    <3>1. pc[m] \notin {"claim"} \cup Choosing
      BY <2>7, NotCompeting DEF Reading
    <3>2. Passed(n, x)
      BY <2>7, <3>1 DEF Passed, Behind, Choosing
    <3> QED BY <2>1, <2>4, <2>5, <2>7, <3>2 DEF Cleared
  <2>8. CASE n = m /\ pc[x] = "tickets"
    <3>1. pc[m] \notin Ticketed
      BY <2>8, NotCompeting DEF Reading
    <3> QED BY <2>1, <2>4, <2>5, <2>8, <3>1 DEF Cleared, Passed, Order
  <2>9. CASE pc[x] = "count"
    BY <2>1, <2>4, <2>9 DEF Cleared
  <2> QED BY <1>1, <2>4, <2>6, <2>7, <2>8, <2>9
<1> QED BY <1>3, <1>4, <1>5, <1>6, <1>7, OneMoves

LEMMA RegardKeeps ==
  ASSUME Bakery, NEW x \in Nonce, NEW k \in Kind, NEW m \in Nonce,
         Reading(x, k), m \in todo[x], Note(x, m), Pass(x, m),
         UNCHANGED <<claim, pc, doomed, tries, number, cancelled, spent>>
  PROVE  Bakery'
<1> USE DEF Bakery
<1>1. todo' = [todo EXCEPT ![x] = @ \ {m}]
  BY DEF Pass
<1>2. TypeOK'
  BY <1>1 DEF TypeOK, Note, spent, Sight
<1>3. ASSUME NEW n \in Nonce PROVE Spares(n)
  BY DEF Spares
<1>4. Claimed(x)'
  BY <1>3, SparedClaims DEF Claims
<1>5. ASSUME NEW n \in Nonce \ {x} PROVE Still(n)
  BY <1>1 DEF Still, TypeOK, Note
<1>6. ASSUME NEW n \in Nonce \ {x} PROVE Cleared(x, n)' /\ Cleared(n, x)'
  <2>1. /\ pc' = pc /\ number' = number /\ todo'[n] = todo[n] /\ best'[n] = best[n]
        /\ \A o \in Nonce : o # m => (o \in todo'[x] <=> o \in todo[x])
        /\ seen[x] \subseteq seen'[x]
    BY <1>1, <1>5 DEF TypeOK, Still, Note
  <2>2. ASSUME Behind(x, n) PROVE Behind(x, n)'
    <3>1. CASE pc[x] = "count"
      <4>1. best'[x] >= best[x] /\ best'[x] >= number[m] /\ best'[x] \in Nat
        BY <3>1 DEF Note, TypeOK
      <4> QED BY <2>1, <2>2, <3>1, <4>1 DEF Behind, TypeOK, Ticketed
    <3>2. CASE pc[x] # "count"
      BY <2>1, <2>2, <3>2 DEF Behind, Before
    <3> QED BY <3>1, <3>2
  <2>3. Passed(x, n) => Passed(x, n)'
    BY <2>1, <2>2 DEF Passed
  <2>4. Cleared(x, n)'
    BY <1>5, <2>2, <2>3, Advance
  <2>5. /\ Behind(n, x) => Behind(n, x)'
        /\ Passed(n, x) => Passed(n, x)'
    BY <2>1 DEF Behind, Before, Passed
  <2>6. CASE n # m
    BY <2>1, <2>4, <2>5, <2>6 DEF Cleared, Order
  <2>7. CASE pc[x] = "choosing"
    <3>1. "busy" \in seen'[x]
      BY <2>7 DEF Note, TypeOK
    <3> QED BY <2>1, <2>4, <2>7, <3>1 DEF Cleared
  <2>8. CASE n = m /\ pc[x] = "tickets"
    <3>1. CASE Before(m, x)
      <4>1. "behind" \in seen'[x]
        BY <2>8, <3>1 DEF Note, TypeOK
      <4> QED BY <2>1, <2>4, <2>8, <4>1 DEF Cleared
    <3>2. CASE ~Before(m, x)
      <4>1. Before(x, m)
        BY <2>8, <3>2, Ordered
      <4>2. Passed(m, x) => Behind(m, x)
        BY <4>1 DEF Passed, Behind, Ticketed
      <4> QED BY <2>1, <2>4, <2>5, <2>8, <4>2 DEF Cleared, Order
    <3> QED BY <3>1, <3>2
  <2>9. CASE pc[x] = "count"
    BY <2>1, <2>4, <2>9 DEF Cleared
  <2> QED BY <2>4, <2>6, <2>7, <2>8, <2>9 DEF Reading
<1> QED BY <1>2, <1>3, <1>4, <1>5, <1>6, OneMoves

(* Finding an entry aged changes nothing that anybody relies on.           *)
LEMMA DoomKeeps ==
  ASSUME Bakery, doomed' \in [Nonce -> SUBSET Nonce],
         UNCHANGED <<claim, pc, todo, best, seen, tries, number, cancelled, spent>>
  PROVE  Bakery'
<1>1. \A n \in Nonce : Spares(n) /\ Still(n)
  BY DEF Spares, Still
<1>2. TypeOK'
  BY DEF Bakery, TypeOK, spent
<1>3. Claims'
  BY <1>1, SparedClaims DEF Bakery, Claims
<1>4. Order'
  BY <1>1, StillCleared DEF Bakery, Order
<1> QED BY <1>2, <1>3, <1>4 DEF Bakery

LEMMA VisitKeeps ==
  ASSUME Bakery, Reaping, ~Aging, NEW x \in Nonce, NEW k \in Kind, NEW m \in Nonce,
         Visit(x, k, m) \/ Reap(x, k, m)
  PROVE  Bakery'
<1>1. CASE Reap(x, k, m)
  <2>1. /\ m \in todo[x] /\ pc[m] = "dead"
        /\ doomed' \in [Nonce -> SUBSET Nonce]
    BY <1>1 DEF Reap, Reaping, Doomed, Bakery, TypeOK
  <2> QED BY <1>1, <2>1, DisregardKeeps DEF Reap
<1>2. CASE /\ Visit(x, k, m) /\ Disregarded(x, k, m) /\ Pass(x, m)
           /\ UNCHANGED <<pc, doomed, best, seen, tries>>
  <2>1. doomed' \in [Nonce -> SUBSET Nonce]
    BY <1>2 DEF Bakery, TypeOK
  <2> QED BY <1>2, <2>1, DisregardKeeps DEF Visit
<1>3. CASE /\ Visit(x, k, m) /\ Note(x, m) /\ Pass(x, m)
           /\ UNCHANGED <<claim, pc, doomed, tries>>
  BY <1>3, RegardKeeps DEF Visit
<1>4. CASE Visit(x, k, m) /\ Raise(x)
  BY <1>4, RaiseKeeps DEF Visit
<1>5. CASE /\ Visit(x, k, m) /\ doomed' = [doomed EXCEPT ![x] = {m}]
           /\ UNCHANGED <<claim, pc, todo, best, seen, tries>>
  <2>1. doomed' \in [Nonce -> SUBSET Nonce]
    BY <1>5 DEF Bakery, TypeOK
  <2> QED BY <1>5, <2>1, DoomKeeps DEF Visit
<1> QED BY <1>1, <1>2, <1>3, <1>4, <1>5 DEF Visit

LEMMA ReadTicketsKeeps ==
  ASSUME Bakery, NEW x \in Nonce, ReadTickets(x)
  PROVE  Bakery'
<1> USE DEF Bakery
<1>1. /\ pc[x] = "choosing" /\ todo[x] = {} /\ Goto(x, "tickets") /\ "tickets" \in Label
      /\ todo' = [todo EXCEPT ![x] = Nonce]
      /\ UNCHANGED <<claim, number, cancelled, doomed, best, seen, tries, spent>>
  BY DEF ReadTickets, Scan, Label
<1>2. TypeOK'
  BY <1>1, GotoType DEF TypeOK, spent
<1>3. Claimed(x)'
  BY <1>1, GotoType DEF Claims, Claimed, Choosing, Ticketed, Live
<1>4. ASSUME NEW n \in Nonce \ {x} PROVE Spares(n) /\ Still(n)
  BY <1>1, GotoType DEF Spares, Still, TypeOK
<1>5. ASSUME NEW n \in Nonce \ {x} PROVE Cleared(x, n)' /\ Cleared(n, x)'
  <2>1. pc'[x] = "tickets" /\ n \in todo'[x] /\ pc'[n] = pc[n] /\ todo'[n] = todo[n]
    BY <1>1, <1>4, GotoType DEF TypeOK, Still
  <2>2. /\ Behind(x, n) => Behind(x, n)'
        /\ Passed(x, n) => Passed(x, n)'
    BY <1>1, <2>1 DEF Behind, Before, Passed, Ticketed
  <2>3. Passed(n, x) => Passed(n, x)'
    BY <1>1, <2>1 DEF Behind, Before, Passed
  <2>4. "busy" \in seen[x] \/ Passed(n, x)
    BY <1>1 DEF Order, Cleared
  <2> QED BY <1>1, <1>4, <2>1, <2>2, <2>3, <2>4, Advance DEF Cleared
<1> QED BY <1>2, <1>3, <1>4, <1>5, OneMoves

LEMMA DecideKeeps ==
  ASSUME Bakery, NEW x \in Nonce, Decide(x)
  PROVE  Bakery'
<1> USE DEF Bakery
<1>1. CASE Raise(x) /\ UNCHANGED spent
  BY <1>1, RaiseKeeps
<1>2. CASE Enter(x) /\ seen[x] = {"mine"} /\ UNCHANGED spent
  <2>1. /\ pc[x] = "tickets" /\ todo[x] = {} /\ Goto(x, "hold") /\ "hold" \in Label
        /\ Forget(x) /\ UNCHANGED <<claim, number, cancelled>>
    BY <1>2 DEF Decide, Enter, Label
  <2>2. TypeOK'
    BY <1>2, <2>1, GotoType, ForgetType DEF TypeOK, spent
  <2>3. Claimed(x)'
    BY <2>1, GotoType, ForgetType DEF Claims, Claimed, Choosing, Ticketed, Live
  <2>4. ASSUME NEW n \in Nonce \ {x} PROVE Spares(n) /\ Still(n)
    BY <2>1, GotoType, ForgetType DEF Spares, Still
  <2>5. ASSUME NEW n \in Nonce \ {x} PROVE Cleared(x, n)' /\ Cleared(n, x)'
    <3>1. pc'[x] = "hold" /\ pc'[n] = pc[n] /\ todo'[n] = todo[n] /\ best'[n] = best[n]
      BY <2>1, <2>4, GotoType DEF Still
    <3>2. /\ Behind(x, n) => Behind(x, n)'
          /\ Passed(x, n) => Passed(x, n)'
      BY <2>1, <3>1 DEF Behind, Before, Passed, Ticketed
    <3>3. Behind(n, x)
      BY <1>2, <2>1 DEF Order, Cleared
    <3>4. Behind(n, x)'
      BY <2>1, <3>1, <3>3 DEF Behind, Before
    <3> QED BY <2>4, <3>1, <3>2, <3>4, Advance DEF Cleared
  <2> QED BY <2>2, <2>3, <2>4, <2>5, OneMoves
<1>3. CASE Rescan(x) /\ tries' = [tries EXCEPT ![x] = @ + 1] /\ UNCHANGED spent
  <2>1. /\ pc[x] = "tickets" /\ Goto(x, "choosing") /\ "choosing" \in Label
        /\ todo' = [todo EXCEPT ![x] = Nonce \ {x}]
        /\ seen' = [seen EXCEPT ![x] = {}]
        /\ UNCHANGED <<claim, number, cancelled, doomed, best>>
    BY <1>3 DEF Decide, Rescan, Scan, Label
  <2>2. TypeOK'
    BY <1>3, <2>1, GotoType DEF TypeOK, spent
  <2>3. Claimed(x)'
    BY <2>1, GotoType DEF Claims, Claimed, Choosing, Ticketed, Live
  <2>4. ASSUME NEW n \in Nonce \ {x} PROVE Spares(n) /\ Still(n)
    BY <2>1, GotoType DEF Spares, Still, TypeOK
  <2>5. ASSUME NEW n \in Nonce \ {x} PROVE Cleared(x, n)' /\ Cleared(n, x)'
    <3>1. pc'[x] = "choosing" /\ n \in todo'[x]
      BY <2>1, GotoType DEF TypeOK
    <3>2. /\ Behind(x, n) => Behind(x, n)'
          /\ Passed(x, n) => Passed(x, n)'
      BY <2>1, <3>1 DEF Behind, Before, Passed, Ticketed
    <3> QED BY <2>4, <3>1, <3>2, Advance DEF Cleared
  <2> QED BY <2>2, <2>3, <2>4, <2>5, OneMoves
<1> QED BY <1>1, <1>2, <1>3 DEF Decide
-----------------------------------------------------------------------------
LEMMA NextKeeps ==
  ASSUME Bakery, Reaping, ~Aging, [Next]_vars
  PROVE  Bakery'
<1>1. CASE UNCHANGED vars
  <2>1. \A n \in Nonce : Spares(n) /\ Still(n)
    BY <1>1 DEF vars, memory, Spares, Still
  <2>2. TypeOK'
    BY <1>1 DEF vars, memory, spent, Bakery, TypeOK
  <2>3. Claims'
    BY <2>1, SparedClaims DEF Bakery, Claims
  <2>4. Order'
    BY <2>1, StillCleared DEF Bakery, Order
  <2> QED BY <2>2, <2>3, <2>4 DEF Bakery
<1>2. ASSUME NEW x \in Nonce, Claim(x) \/ Step(x) \/ Fail(x) \/ Exit(x)
      PROVE  Bakery'
  BY <1>2, ClaimKeeps, FillClaimKeeps, NumberTicketKeeps, WriteTicketKeeps, OpenKeeps,
     VisitKeeps, ReadTicketsKeeps, DecideKeeps, WithdrawalKeeps, FailKeeps, ExitKeeps
     DEF Step
<1> QED BY <1>1, <1>2 DEF Next

(* A step of x leaves what others remember and the claims of others alone, *)
(* but for claims it unlinks.                                              *)
Apart(x) ==
  /\ pc[x] # "dead"
  /\ \A n \in Nonce \ {x} : pc'[n] = pc[n] /\ todo'[n] = todo[n] /\ doomed'[n] = doomed[n]
  /\ \A k \in Kind, n \in Nonce \ {x} : claim'[k][n] \in {claim[k][n], "none"}

LEMMA ApartReaping ==
  ASSUME TypeOK, Reaping, NEW x \in Nonce, Apart(x), Doomed(x)'
  PROVE  Reaping'
<1> SUFFICES ASSUME NEW n \in Nonce \ {x} PROVE Doomed(n)'
  BY DEF Reaping
<1>1. Doomed(n) /\ pc'[n] = pc[n] /\ todo'[n] = todo[n] /\ doomed'[n] = doomed[n]
  BY DEF Reaping, Apart
<1>2. ASSUME NEW m \in Nonce, pc[m] = "dead"
      PROVE  /\ pc'[m] = "dead"
             /\ \A k \in Kind : claim[k][m] # "whole" => claim'[k][m] # "whole"
  BY <1>2 DEF Apart
<1>3. \A m \in doomed[n] : m \in Nonce
  BY DEF TypeOK
<1> QED BY <1>1, <1>2, <1>3 DEF Doomed, Reading

(* Whoever moves on is about to unlink nothing.                            *)
LEMMA MoveReaps ==
  ASSUME Bakery, Reaping, NEW x \in Nonce,
         \/ Claim(x) \/ FillClaim(x) \/ NumberTicket(x) \/ WriteTicket(x) \/ Open(x)
         \/ ReadTickets(x) \/ Decide(x) \/ Leave(x) \/ Quit(x) \/ Resign(x)
         \/ Fail(x) \/ Exit(x)
  PROVE  Reaping'
<1> USE DEF Bakery
<1>1. \/ UNCHANGED claim
      \/ \E k \in Kind, v \in {"none", "torn", "whole"} :
           claim' = [claim EXCEPT ![k][x] = v]
  BY DEF Claim, FillClaim, NumberTicket, WriteTicket, Open, ReadTickets, Decide, Enter,
         Rescan, Leave, Quit, Resign, Fail, Exit, Raise, Withdraw, WithdrawIfThere,
         Removed, Kind, TypeOK
<1>2. \A k \in Kind, n \in Nonce \ {x} : claim'[k][n] = claim[k][n]
  BY <1>1, TypedClaim
<1>3. pc[x] # "dead"
  BY DEF Claim, FillClaim, NumberTicket, WriteTicket, Open, ReadTickets, Decide, Leave,
         Quit, Resign, Fail, Exit, Working
<1>4. \E l \in Label : Goto(x, l)
  BY DEF Claim, FillClaim, NumberTicket, WriteTicket, Open, ReadTickets, Decide, Enter,
         Rescan, Leave, Quit, Resign, Fail, Exit, Raise, Scan, Label
<1>5. \/ Forget(x)
      \/ /\ UNCHANGED doomed
         /\ todo' = todo \/ \E s \in SUBSET Nonce : todo' = [todo EXCEPT ![x] = s]
         /\ pc[x] \notin {"count", "choosing", "tickets"} \/ todo[x] = {}
  <2>1. Nonce \in SUBSET Nonce /\ Nonce \ {x} \in SUBSET Nonce
    OBVIOUS
  <2> QED BY <2>1 DEF Claim, FillClaim, NumberTicket, WriteTicket, Open, ReadTickets, Decide,
         Enter, Rescan, Leave, Quit, Resign, Fail, Exit, Raise, Scan, memory
<1>6. \A n \in Nonce \ {x} : pc'[n] = pc[n] /\ todo'[n] = todo[n] /\ doomed'[n] = doomed[n]
  BY <1>4, <1>5, GotoType, ForgetType DEF TypeOK
<1>7. doomed'[x] = {}
  BY <1>5, ForgetType DEF Reaping, Doomed
<1> QED BY <1>2, <1>3, <1>6, <1>7, ApartReaping DEF Apart, Doomed

LEMMA VisitReaps ==
  ASSUME Bakery, Reaping, ~Aging, NEW x \in Nonce, NEW k \in Kind, NEW m \in Nonce,
         Visit(x, k, m) \/ Reap(x, k, m)
  PROVE  Reaping'
<1> USE DEF Bakery
<1>1. Reading(x, k) /\ pc[x] # "dead"
  BY DEF Visit, Reap, Reading
<1>2. UNCHANGED claim \/ Removed(k, m)
  BY DEF Visit, Reap, Disregarded, Raise
<1>3. \A j \in Kind, n \in Nonce : claim'[j][n] \in {claim[j][n], "none"}
  BY <1>2, TypedClaim DEF Removed
<1>4. CASE Visit(x, k, m) /\ Raise(x)
  <2>1. Goto(x, "quit") /\ "quit" \in Label /\ Forget(x)
    BY <1>4 DEF Raise, Label
  <2> QED BY <1>1, <1>3, <2>1, GotoType, ForgetType, ApartReaping DEF Apart, Doomed
<1>5. CASE UNCHANGED pc /\ (Pass(x, m) \/ UNCHANGED todo) /\ doomed'[x] = {}
           /\ \A n \in Nonce \ {x} : doomed'[n] = doomed[n]
  <2>1. \A n \in Nonce \ {x} : pc'[n] = pc[n] /\ todo'[n] = todo[n]
    BY <1>5 DEF Pass, TypeOK
  <2> QED BY <1>1, <1>3, <1>5, <2>1, ApartReaping DEF Apart, Doomed
<1>6. CASE /\ Visit(x, k, m) /\ claim[k][m] = "torn" /\ pc[m] = "dead"
           /\ doomed' = [doomed EXCEPT ![x] = {m}]
           /\ UNCHANGED <<claim, pc, todo, best, seen, tries>>
  <2>1. /\ doomed'[x] = {m} /\ m \in todo[x]
        /\ \A n \in Nonce \ {x} : doomed'[n] = doomed[n]
    BY <1>6 DEF Visit, TypeOK
  <2>2. \A j \in Kind : Reading(x, j) => j = k
    BY <1>1 DEF Reading
  <2>3. Doomed(x)'
    BY <1>1, <1>6, <2>1, <2>2 DEF Doomed, Reading
  <2> QED BY <1>1, <1>6, <2>1, <2>3, ApartReaping DEF Apart
<1>7. CASE Reap(x, k, m)
  BY <1>5, <1>7 DEF Reap, TypeOK
<1>8. CASE /\ Visit(x, k, m) /\ UNCHANGED <<pc, doomed>> /\ Pass(x, m)
  BY <1>5, <1>8 DEF Visit
<1> QED BY <1>4, <1>6, <1>7, <1>8 DEF Visit

LEMMA BakeryHolds ==
  ASSUME ~Aging
  PROVE  Spec => [](Bakery /\ Reaping)
<1>1. Init => Bakery /\ Reaping
  <2>1. Init => Reaping
    BY DEF Init, Reaping, Doomed
  <2> QED BY <2>1, InitBakery
<1>2. Bakery /\ Reaping /\ [Next]_vars => (Bakery /\ Reaping)'
  <2> SUFFICES ASSUME Bakery, Reaping, [Next]_vars PROVE Bakery' /\ Reaping'
    OBVIOUS
  <2>1. Bakery'
    BY NextKeeps
  <2>2. ASSUME UNCHANGED vars PROVE Reaping'
    BY <2>2 DEF vars, memory, Reaping, Doomed, Reading
  <2>3. ASSUME NEW x \in Nonce, Claim(x) \/ Step(x) \/ Fail(x) \/ Exit(x)
        PROVE  Reaping'
    BY <2>3, MoveReaps, VisitReaps DEF Step
  <2> QED BY <2>1, <2>2, <2>3 DEF Next
<1> QED BY <1>1, <1>2, PTL DEF Spec

(***************************************************************************)
(* The bakery serialises: while nobody takes an hour to write a claim, at     *)
(* most one attempt at a time is between _acquire_mutation_guard and            *)
(* _release_mutation_guard, whatever is scanned, fails or dies when.       *)
(***************************************************************************)
THEOREM GuardExcludes ==
  ASSUME ~Aging
  PROVE  Spec => []MutualExclusion
<1>1. Bakery => MutualExclusion
  <2> SUFFICES ASSUME Bakery, NEW m \in Nonce, NEW n \in Nonce,
                      pc[m] = "hold", pc[n] = "hold", m # n
               PROVE  FALSE
    BY DEF MutualExclusion
  <2>1. Behind(m, n) /\ Behind(n, m)
    BY DEF Bakery, Order, Cleared
  <2>2. Before(m, n) /\ Before(n, m)
    BY <2>1 DEF Behind, Ticketed
  <2> QED BY <2>2, Ordered DEF Bakery
<1> QED BY <1>1, BakeryHolds, PTL

(***************************************************************************)
(* The holder's ticket stays where every other attempt will find it: no    *)
(* reader unlinks the claim of a live attempt.                             *)
(***************************************************************************)
THEOREM HolderStaysVisible ==
  ASSUME ~Aging
  PROVE  Spec => []HolderIsVisible
<1>1. Bakery => HolderIsVisible
  BY DEF Bakery, Claims, Claimed, HolderIsVisible, Ticketed, Live
<1> QED BY <1>1, BakeryHolds, PTL
-----------------------------------------------------------------------------
(***************************************************************************)
(* What becomes of a whole claim that was not retired.                     *)
(***************************************************************************)
(* An attempt that moves on changes no claim but its own.                  *)
LEMMA OwnClaims ==
  ASSUME Bakery, NEW x \in Nonce,
         \/ Claim(x) \/ FillClaim(x) \/ NumberTicket(x) \/ WriteTicket(x) \/ Open(x)
         \/ ReadTickets(x) \/ Decide(x) \/ Leave(x) \/ Quit(x) \/ Resign(x)
         \/ Fail(x) \/ Exit(x)
  PROVE  OwnOrDead
<1>1. \/ UNCHANGED claim
      \/ \E k \in Kind, v \in {"none", "torn", "whole"} :
           claim' = [claim EXCEPT ![k][x] = v]
  BY DEF Claim, FillClaim, NumberTicket, WriteTicket, Open, ReadTickets, Decide, Enter,
         Rescan, Leave, Quit, Resign, Fail, Exit, Raise, Withdraw, WithdrawIfThere,
         Removed, Kind, Bakery, TypeOK
<1>2. ~ReadTickets(x) /\ ~Decide(x) => pc'[x] # pc[x]
  BY DEF Claim, FillClaim, NumberTicket, WriteTicket, Open, Leave, Quit, Resign, Fail,
         Exit, Raise, Scan, Goto, Bakery, TypeOK, Working
<1>3. ReadTickets(x) \/ Decide(x) => UNCHANGED claim
  BY DEF ReadTickets, Decide, Enter, Rescan, Raise
<1>4. ASSUME NEW k \in Kind, NEW m \in Nonce, claim'[k][m] # claim[k][m]
      PROVE  m = x /\ pc'[m] # pc[m]
  BY <1>1, <1>2, <1>3, <1>4, TypedClaim DEF Bakery
<1> QED BY <1>4 DEF OwnOrDead

LEMMA VisitSpares ==
  ASSUME Bakery, Reaping, NEW x \in Nonce, NEW k \in Kind, NEW m \in Nonce,
         Visit(x, k, m) \/ Reap(x, k, m)
  PROVE  OwnOrDead
<1>1. Reap(x, k, m) => claim[k][m] # "whole"
  BY DEF Reap, Reaping, Doomed
<1>2. \/ UNCHANGED claim
      \/ /\ Removed(k, m)
         /\ claim[k][m] # "whole" \/ <<k, m>> \in cancelled \/ Orphan(x, m)
  BY <1>1 DEF Visit, Reap, Disregarded, Raise
<1>3. pc[x] \in {"count", "choosing", "tickets"}
  BY DEF Visit, Reap, Reading
<1>4. CASE UNCHANGED claim
  BY <1>4 DEF OwnOrDead
<1>5. CASE Removed(k, m)
  <2>1. ASSUME NEW j \in Kind, NEW n \in Nonce, claim'[j][n] # claim[j][n]
        PROVE  j = k /\ n = m
    BY <1>5, <2>1, TypedClaim DEF Removed, Bakery
  <2>2. CASE claim[k][m] # "whole" \/ <<k, m>> \in cancelled
    <3> SUFFICES ASSUME NEW j \in Kind, NEW n \in Nonce, claim[j][n] = "whole",
                        claim'[j][n] # claim[j][n], <<j, n>> \notin cancelled
                 PROVE  FALSE
      BY DEF OwnOrDead
    <3> QED BY <2>1, <2>2
  <2>3. CASE Orphan(x, m)
    <3>1. /\ pc[m] = "dead"
          /\ x \in Nonce \ {m} /\ Host[x] = Host[m]
      BY <1>3, <2>3 DEF Orphan
    <3> SUFFICES ASSUME NEW j \in Kind, NEW n \in Nonce, claim'[j][n] # claim[j][n]
                 PROVE  /\ pc[n] = "dead"
                        /\ \E y \in Nonce \ {n} :
                             Host[y] = Host[n] /\ pc[y] \in {"count", "choosing", "tickets"}
      BY DEF OwnOrDead
    <3>2. n = m
      BY <2>1
    <3> QED BY <1>3, <3>1, <3>2
  <2> QED BY <1>2, <1>5, <2>2, <2>3, <1>4
<1> QED BY <1>2, <1>4, <1>5

(***************************************************************************)
(* Age never takes a parseable claim: one that was not retired by its owner *)
(* leaves the disk by its owner's own step, or because a process of the    *)
(* owner's host finds the owner dead, as long as nobody alive takes an     *)
(* hour to write a claim.                                                  *)
(***************************************************************************)
THEOREM LiveClaimsStay ==
  ASSUME ~Aging
  PROVE  Spec => OnlyDeadReclaimed
<1>1. Bakery /\ Reaping /\ [Next]_vars => [OwnOrDead]_vars
  <2> SUFFICES ASSUME Bakery, Reaping, Next PROVE OwnOrDead
    OBVIOUS
  <2>1. PICK x \in Nonce : Claim(x) \/ Step(x) \/ Fail(x) \/ Exit(x)
    BY DEF Next
  <2> QED BY <2>1, OwnClaims, VisitSpares DEF Step
<1> QED BY <1>1, BakeryHolds, PTL DEF Spec, OnlyDeadReclaimed
=============================================================================
