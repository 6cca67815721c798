----------------------------- MODULE MCGuiTask -----------------------------
(* Instances of GuiTask for TLC. *)
EXTENDS GuiTask

MCThread == {UI, Render, Worker}

(* Routing with router1 and router2, both between routeClock and           *)
(* fixupRouting, and placing on an architecture without timing_opt.        *)
MCTasks == {<<"bare", "yielding", "bare">>, <<"held">>}

=============================================================================
