------------------------------- MODULE Limits -------------------------------
(***************************************************************************)
(* The two counters a process keeps in memory, for one key each: the token *)
(* bucket that limits requests and the sampler that folds bursts of audit  *)
(* events into one row per window.                                         *)
(*                                                                         *)
(* Time is how long ago an entry was touched, in ticks, and never runs     *)
(* back.  The tokens are counted in parts, Window of them to a token, so   *)
(* that a tick adds Capacity parts and nothing is rounded.  Beside the     *)
(* bucket stands one that is never pruned, and beside the sampler what it  *)
(* has really left unwritten.                                              *)
(***************************************************************************)
EXTENDS Naturals

CONSTANTS
    Capacity,       \* tokens in a full bucket
    Window,         \* ticks in a window of either counter
    MaxMissed       \* events left unwritten in a row (bound)

ASSUME LimitsAssumption ==
    Capacity \in Nat \ {0} /\ Window \in Nat \ {0} /\ MaxMissed \in Nat

VARIABLES
    bucket,         \* the limiter's entry, or none
    shadow,         \* what it would be had nothing been pruned
    entry,          \* the sampler's entry, or none
    missed,         \* events since the last row was written
    sinceRow        \* ticks since then

limitVars == <<bucket, shadow, entry, missed, sinceRow>>

Full == Capacity * Window
Forever == 2 * Window
Bucket == [tokens : 0 .. Full, idle : 0 .. Forever]
NoBucket == [tokens |-> Full, idle |-> Forever]
NoEntry == [suppressed |-> 0, age |-> Forever, kept |-> FALSE]

LimitsInit ==
    /\ bucket = NoBucket /\ shadow = NoBucket
    /\ entry = NoEntry /\ missed = 0 /\ sinceRow = Forever

Later(n) == IF n < Forever THEN n + 1 ELSE n
Tick ==
    /\ bucket' = [bucket EXCEPT !.idle = Later(@)]
    /\ shadow' = [shadow EXCEPT !.idle = Later(@)]
    /\ entry' = [entry EXCEPT !.age = Later(@)]
    /\ sinceRow' = Later(sinceRow)
    /\ UNCHANGED missed

----------------------------------------------------------------------------
(* consume: the bucket is filled up for the time gone by, and a token is   *)
(* taken if there is a whole one.                                          *)
Level(b) == IF b.tokens + b.idle * Capacity > Full THEN Full ELSE b.tokens + b.idle * Capacity
SpentUnasked(b) == [tokens |-> Level(b) - Window, idle |-> 0]
Spent(b) == [tokens |-> IF Level(b) < Window THEN Level(b) ELSE Level(b) - Window, idle |-> 0]

Consume ==
    /\ bucket' = Spent(bucket) /\ shadow' = Spent(shadow)
    /\ UNCHANGED <<entry, missed, sinceRow>>

(* prune: "After that long they would have refilled anyway."  The mutated  *)
(* forms stand before what they would replace.                             *)
Touchless(b) == b.idle > 0
IdleForAWindow(b) == b.idle >= Window

PruneBuckets ==
    /\ IdleForAWindow(bucket)
    /\ bucket' = NoBucket
    /\ UNCHANGED <<shadow, entry, missed, sinceRow>>

----------------------------------------------------------------------------
(* sample: the first event of a window is written, with what the sampler   *)
(* has counted since the last; the others are counted.                     *)
OldAfterOneWindow == entry.age >= Window
OldEntry == entry.age >= 2 * Window

(* Every thousandth call, for whatever key, prunes first.                  *)
Found(pruning) == IF pruning /\ OldEntry THEN NoEntry ELSE entry

Sample(pruning) ==
    LET e == Found(pruning)
    IN IF e.kept /\ e.age < Window
         THEN /\ missed < MaxMissed /\ missed' = missed + 1
              /\ entry' = [e EXCEPT !.suppressed = @ + 1]
              /\ UNCHANGED <<bucket, shadow, sinceRow>>
         ELSE /\ entry' = [suppressed |-> 0, age |-> 0, kept |-> TRUE]
              /\ missed' = 0 /\ sinceRow' = 0
              /\ UNCHANGED <<bucket, shadow>>

PruneEntries ==
    /\ entry.kept /\ OldEntry
    /\ entry' = NoEntry
    /\ UNCHANGED <<bucket, shadow, missed, sinceRow>>

LimitsNext ==
    \/ Tick \/ Consume \/ PruneBuckets \/ PruneEntries
    \/ \E pruning \in BOOLEAN : Sample(pruning)

LimitsSpec == LimitsInit /\ [][LimitsNext]_limitVars

----------------------------------------------------------------------------
(* Types and ranges of both counters: tokens are never overdrawn and never *)
(* exceed the capacity.                                                    *)
LimitsTypeOK ==
    /\ bucket \in Bucket /\ shadow \in Bucket
    /\ entry \in [suppressed : 0 .. MaxMissed, age : 0 .. Forever, kept : BOOLEAN]
    /\ missed \in 0 .. MaxMissed /\ sinceRow \in 0 .. Forever

(* "Forgetting them changes no decision": the bucket stands where it would *)
(* had nothing ever been pruned.                                           *)
SameDecision == Level(bucket) = Level(shadow)

(* "Its count reaches the next row, if one comes": a row that comes within *)
(* two windows of the last carries every event left out in between.        *)
BurstsCounted == sinceRow < 2 * Window => entry.suppressed = missed /\ entry.age = sinceRow

=============================================================================
