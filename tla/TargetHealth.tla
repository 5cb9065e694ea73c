---------------------------- MODULE TargetHealth ----------------------------
(***************************************************************************)
(* The health record of one route target (a provider and a model of a      *)
(* chain) and what the pool's methods do to it under the pool's lock.      *)
(* A target the pool has never seen behaves as one with a fresh record.    *)
(* The clock is abstracted: `cooling` says that `until` is still ahead.    *)
(* Source: internal/upstream/upstream.go.                                  *)
(***************************************************************************)
EXTENDS Naturals

Health ==
  [fails : Nat,            \* consecutiveFails
   cooling : BOOLEAN,      \* now is before until
   token : Nat,            \* halfOpenToken, 0 when no probe is out
   tokenCycle : Nat,       \* halfOpenCycle
   cycle : Nat,            \* breakerCycle
   recovering : BOOLEAN]

Fresh == [fails |-> 0, cooling |-> FALSE, token |-> 0, tokenCycle |-> 0,
          cycle |-> 0, recovering |-> FALSE]

(* A probe of the current cycle is out.                                    *)
ProbeOut(h) == h.token # 0 /\ h.tokenCycle = h.cycle

(* ClaimTargetProbe answers (0, false).                                    *)
Refuses(h) == h.cooling \/ (h.recovering /\ ProbeOut(h))

(* ClaimTargetProbe of a target that does not refuse; `fresh` is the next  *)
(* probe token.  A target that is not recovering hands out no token.       *)
TokenFor(h, fresh) == IF h.recovering THEN fresh ELSE 0

Claimed(h, fresh) ==
  IF h.recovering THEN [h EXCEPT !.token = fresh, !.tokenCycle = h.cycle] ELSE h

(* Mutant: an attempt that ends without a verdict keeps its slot.          *)
NeverReleased(h, tok) == h

(* ReleaseTargetProbe.                                                     *)
Released(h, tok) ==
  IF tok # 0 /\ h.token = tok THEN [h EXCEPT !.token = 0] ELSE h

(* Mutant: the slot is freed whoever reports the failure.                  *)
AnyoneFrees(h, tok) == [h EXCEPT !.token = 0, !.tokenCycle = 0]

(* Mutant: a failure below the threshold leaves the slot taken.            *)
NobodyFrees(h, tok) == h

(* A failure consumes the probe it belongs to.                             *)
Consume(h, tok) ==
  IF tok # 0 /\ h.token = tok
    THEN [h EXCEPT !.token = 0, !.tokenCycle = 0] ELSE h

Counted(h, tok) == [Consume(h, tok) EXCEPT !.fails = @ + 1, !.recovering = TRUE]

Opened(h) == [h EXCEPT !.cooling = TRUE, !.fails = 0, !.cycle = @ + 1]

(* RecordTargetFailure.  With breaking off there is no recovery; the code  *)
(* then frees the slot and clears the flag under two locks, which are one  *)
(* step here: a claim between them, under an older threshold, is left out. *)
Failed(h, tok, threshold) ==
  LET g == Counted(h, tok) IN
  IF threshold = 0 THEN [Released(h, tok) EXCEPT !.recovering = FALSE]
  ELSE IF g.fails >= threshold THEN Opened(g) ELSE g

(* Mutant: the success of a probe ends the recovery whatever the clock.    *)
SucceededAnyTime(h, tok) ==
  IF tok # 0 /\ h.token = tok
    THEN [h EXCEPT !.fails = 0, !.token = 0, !.recovering = FALSE]
    ELSE [h EXCEPT !.fails = 0]

(* RecordTargetSuccess.                                                    *)
Succeeded(h, tok) ==
  IF tok # 0 /\ h.token = tok
    THEN [h EXCEPT !.fails = 0, !.token = 0,
                   !.recovering = IF h.cooling THEN @ ELSE FALSE]
    ELSE [h EXCEPT !.fails = 0]

(* Install keeps the record of a target that still exists, without its     *)
(* probe slot.                                                             *)
Kept(h) == [h EXCEPT !.token = 0, !.tokenCycle = 0]
=============================================================================
