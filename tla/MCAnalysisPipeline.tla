------------------------- MODULE MCAnalysisPipeline -------------------------
(* Instances of AnalysisPipeline for TLC. *)
EXTENDS AnalysisPipeline, TLC

CONSTANTS w1, w2, o1

\* Two incoming messages and one that a reply creates, in this order.
MCTimeOf == [w \in WaIds |-> CASE w = w1 -> 1 [] w = w2 -> 3 [] OTHER -> 2]

\* Where the order of the messages does not matter.
FlatTimeOf == [w \in WaIds |-> 1]

\* docker/migrate.sh applies 001 to 006; the repository has nine migrations.
AllMigrations == 1 .. 9
DockerMigrations == 1 .. 6

\* Row ids, handlers and workers only differ by name.
Symmetries == Permutations(Ids) \cup Permutations(Handlers) \cup Permutations(Slots)
AlsoMessages == Symmetries \cup Permutations(WaIds)
============================================================================
