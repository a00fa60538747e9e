------------------------------ MODULE MCChain -------------------------------
(* Chain on a small instance for TLC. *)
EXTENDS Chain

SmallDefault == [seconds_between_blocks |-> 10, difficulty_adjustment_block_count |-> 1,
                 difficulty_tuning_block_count |-> 3, initial_difficulty |-> 0]

SomeChanges == {[seconds_between_blocks |-> 2, difficulty_adjustment_block_count |-> 2,
                 initial_difficulty |-> 3]}

(* Half the default interval, more than twice the changed one. *)
OnePace == {5}

(* Back in time; half the default interval and below; its double and above. *)
Seconds == {-1, 4, 5, 20, 21}
=============================================================================
