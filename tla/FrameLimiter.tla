---------------------------- MODULE FrameLimiter ----------------------------
(***************************************************************************)
(* The limits on what a connection may send                                *)
(* (packages/client-rust/src/services/connect/limits.rs) and what the      *)
(* reader loop of message.rs does with their verdicts.  One limiter per    *)
(* connection; the loop handles one frame at a time, so a frame is one     *)
(* step.  Sizes and time are in units; the rounding of a refill to whole   *)
(* bytes is below a unit.                                                  *)
(*                                                                         *)
(* To speak of any window of time, an observer (Mark) may start a new one  *)
(* at any moment: window is its length, passed the bytes of record frames  *)
(* handed on to JavaScript since it began.                                 *)
(***************************************************************************)
EXTENDS Naturals

CONSTANTS Size,           \* payload sizes of record frames
          Capacity,       \* RECORD_BUCKET_CAPACITY
          Rate,           \* RECORD_REFILL_PER_SEC, per tick
          MaxViolations,  \* MAX_VIOLATIONS: 3 in the code
          Horizon         \* bound: the longest window, and wait between two frames

ASSUME LimiterAssumption ==
    /\ Size \subseteq Nat /\ Capacity \in Nat /\ Rate \in Nat
    /\ MaxViolations \in Nat \ {0} /\ Horizon \in Nat

VARIABLES violations,  \* counted up to MaxViolations: what is compared with it
          tokens,      \* record_tokens
          lag,         \* time since record_last_refill
          open,        \* does the loop still read?
          window, passed

fvars == <<violations, tokens, lag, open, window, passed>>

AtMost(a, b) == IF a < b THEN a ELSE b

FInit ==
    /\ violations = 0 /\ tokens = Capacity /\ lag = 0 /\ open = TRUE
    /\ window = 0 /\ passed = 0

Tick ==
    /\ open /\ window < Horizon /\ lag < Horizon
    /\ window' = window + 1 /\ lag' = lag + 1
    /\ UNCHANGED <<violations, tokens, open, passed>>

Mark ==
    /\ open /\ window' = 0 /\ passed' = 0
    /\ UNCHANGED <<violations, tokens, lag, open>>

Violated == violations' = AtMost(violations + 1, MaxViolations)

(* check returns Err at every violation, and the loop's ? leaves at once   *)
(* (message.rs 145, 151): text and binary alike.                           *)
TooLong ==
    /\ open /\ Violated /\ open' = FALSE
    /\ UNCHANGED <<tokens, lag, window, passed>>

Refilled == AtMost(tokens + lag * Rate, Capacity)

(* Faulty variant: the time of the refill is not remembered. *)
RecordFrameKeepsClock ==
    /\ open
    /\ \E n \in Size : /\ n <= Refilled
                      /\ tokens' = Refilled - n /\ passed' = passed + n
    /\ UNCHANGED <<violations, lag, open, window>>

(* A record frame within its length: the bucket is refilled first.  The    *)
(* verdict of check_record_frame is dropped with the result of on_bytes    *)
(* (message.rs 152): the frame is lost, the loop goes on.                  *)
RecordFrame ==
    /\ open /\ lag' = 0
    /\ \E n \in Size :
          \/ /\ n <= Refilled
             /\ tokens' = Refilled - n /\ passed' = passed + n
             /\ UNCHANGED violations
          \/ /\ n > Refilled
             /\ tokens' = Refilled /\ Violated
             /\ UNCHANGED passed
    /\ UNCHANGED <<open, window>>

(* The next connection's loop makes a limiter of its own.                  *)
Reconnect ==
    /\ ~open /\ open' = TRUE
    /\ violations' = 0 /\ tokens' = Capacity /\ lag' = 0
    /\ window' = 0 /\ passed' = 0

FNext == Tick \/ Mark \/ TooLong \/ RecordFrame \/ Reconnect

FSpec == FInit /\ [][FNext]_fvars

-----------------------------------------------------------------------------
FTypeOK ==
    /\ violations \in 0..MaxViolations /\ tokens \in 0..Capacity /\ lag \in 0..Horizon
    /\ open \in BOOLEAN /\ window \in 0..Horizon /\ passed \in Nat

(* Whatever the frames of one connection and however they are spaced, over *)
(* any stretch of it JavaScript is handed at most a bucketful of audio and *)
(* what the refill adds meanwhile (limits.rs 7, 61-88).  A peer that comes *)
(* again has a full bucket: over several connections nothing is bounded.   *)
RecordBounded == passed <= Capacity + Rate * window

=============================================================================
