----------------------------- MODULE MCLifecycle -----------------------------
(* Environments for the lifecycle model: OEE off; OEE on with a file that     *)
(* repeats a key; one topic too many for the registry, with another file;     *)
(* a negative buffer size; and three that Load refuses.                       *)
EXTENDS Lifecycle

Entry(k, s) == [key |-> k, shift |-> s]

Plain ==
    [topics |-> <<"a", "">>, maxClients |-> << >>, queueBuffer |-> << >>,
     username |-> "u", password |-> "p", oee |-> << >>, stateTopic |-> << >>,
     shifts |-> << >>]

OEE ==
    [Plain EXCEPT !.oee = <<TRUE>>, !.topics = <<"a", "machine/state">>,
                  !.shifts = <<Entry("day", 1), Entry("day", 2)>>]

SixTopics ==
    [OEE EXCEPT !.topics = <<"a", "b", "c", "d", "e", "machine/state">>,
                !.shifts = <<Entry("night", 1)>>]

MCEnvironments ==
    {Plain, OEE, SixTopics,
     [Plain EXCEPT !.queueBuffer = <<-1>>],
     [Plain EXCEPT !.maxClients = <<6>>],
     [Plain EXCEPT !.topics = << "" >>],
     [OEE EXCEPT !.stateTopic = <<"b">>]}
=============================================================================
