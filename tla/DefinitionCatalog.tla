---- MODULE DefinitionCatalog ----
(***************************************************************************)
(* What the store promises its callers inside one api process, with no     *)
(* word of mutexes, caches or networks: a catalog of definitions in which  *)
(* every Put and every Delete takes effect at one instant, a Put counting  *)
(* the version of its id up by one, and in which a List returns a state    *)
(* the catalog has been in, no older than the writes that had returned     *)
(* when the List was called (store.Store, internal/store/store.go:14-25,   *)
(* and the comments of bitable.go:32-34 and :138-141).                     *)
(***************************************************************************)
EXTENDS Naturals, Sequences

CONSTANTS Ids, Clients

VARIABLES
    history, \* the states of the catalog, the current one last; 0 is absent
    acked,   \* the newest state some returned write made
    floor,   \* floor[c]: acked when the List of client c was called
    answer   \* the state the last List returned

vars == <<history, acked, floor, answer>>

Latest  == Len(history)
Current == history[Latest]

Init ==
    /\ history = <<[i \in Ids |-> 0]>>
    /\ acked = 1
    /\ floor = [c \in Clients |-> 1]
    /\ answer = 1

PutTakesEffect(i) ==
    /\ history' = Append(history, [Current EXCEPT ![i] = @ + 1])
    /\ UNCHANGED <<acked, floor, answer>>

DeleteTakesEffect(i) ==
    /\ Current[i] > 0
    /\ history' = Append(history, [Current EXCEPT ![i] = 0])
    /\ UNCHANGED <<acked, floor, answer>>

WriteReturns ==
    /\ acked' \in (acked + 1)..Latest
    /\ UNCHANGED <<history, floor, answer>>

ListCalled(c) ==
    /\ floor' = [floor EXCEPT ![c] = acked]
    /\ UNCHANGED <<history, acked, answer>>

ListReturns(c) ==
    /\ answer' \in floor[c]..Latest
    /\ floor' = [floor EXCEPT ![c] = 1]
    /\ UNCHANGED <<history, acked>>

\* A List answered at once.
ListAtOnce ==
    /\ answer' \in acked..Latest
    /\ UNCHANGED <<history, acked, floor>>

ListFailed(c) ==
    /\ floor' = [floor EXCEPT ![c] = 1]
    /\ UNCHANGED <<history, acked, answer>>

Next ==
    \/ \E i \in Ids : PutTakesEffect(i) \/ DeleteTakesEffect(i)
    \/ WriteReturns
    \/ \E c \in Clients : ListCalled(c) \/ ListReturns(c) \/ ListFailed(c)
    \/ ListAtOnce

Spec == Init /\ [][Next]_vars

====
