---- MODULE MCPluginStore ----
EXTENDS PluginStore, TLC

CONSTANTS r1, r2, w1, w2, w3

\* The writer w3 runs in a replica of its own, all else in the other.
TwoReplicas == [h \in Handlers |-> IF h = w3 THEN r2 ELSE r1]

\* Goroutines of one kind and process are interchangeable, and so are plugins.
PluginSymmetry ==
    Permutations({w1, w2}) \cup Permutations(Readers) \cup Permutations(Plugins)
====
