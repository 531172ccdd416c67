----------------------------- MODULE LinkedList -----------------------------
(***************************************************************************)
(* A singly linked list: a head, nodes that name the next one, and a count *)
(* kept apart. `content` is the sequence the callers have built, with what *)
(* the last remove returned and what it should have.                       *)
(***************************************************************************)
EXTENDS Integers, SequencesExt, Functions

CONSTANTS NodeValues,
          MaxNodes    \* bound: nodes of the list
VARIABLES list, content

ASSUME ListAssumption == MaxNodes \in Nat

NoNode == 0                                                       \* no node
Nodes == DOMAIN list.next

\* A new object is none of those the list still holds.
NewNode == Min((1..(MaxNodes + 1)) \ Nodes)

\* The n-th node from the head on, and NoNode past the last.
Walk[n \in Nat] ==
    IF n = 0 THEN list.head
    ELSE IF Walk[n - 1] = NoNode THEN NoNode ELSE list.next[Walk[n - 1]]
NodeAt(index) == Walk[index]

\* Searches and copies stop where the chain does and never look at the count.
Length == Min({n \in 0..Cardinality(Nodes) : Walk[n] = NoNode})
ToArray == [i \in 1..Length |-> list.value[Walk[i - 1]]]
IndexOf(value) ==
    LET found == {i \in 0..(Length - 1) : list.value[Walk[i]] = value}
    IN  IF found = {} THEN -1 ELSE Min(found)

WithNode(value, next) ==
    [list EXCEPT !.value = [n \in Nodes \cup {NewNode} |-> IF n = NewNode THEN value ELSE @[n]],
                 !.next = [n \in Nodes \cup {NewNode} |-> IF n = NewNode THEN next ELSE @[n]],
                 !.count = @ + 1]

AtFront(value) == [WithNode(value, list.head) EXCEPT !.head = NewNode]

\* The list with a node behind the one given.
Behind(node, value) == [WithNode(value, list.next[node]) EXCEPT !.next[node] = NewNode]

AtEnd(value) == IF list.head = NoNode THEN AtFront(value) ELSE Behind(Walk[Length - 1], value)

\* The list without a node, to which nothing points any more.
Without(l, node) ==
    [l EXCEPT !.value = Restrict(@, Nodes \ {node}), !.next = Restrict(@, Nodes \ {node}), !.count = @ - 1]

-----------------------------------------------------------------------------
ListInit ==
    /\ list = [head |-> NoNode, count |-> 0, value |-> <<>>, next |-> <<>>]
    /\ content = [items |-> <<>>, returned |-> <<>>, expected |-> <<>>]

Grows(items) ==
    /\ list.count < MaxNodes                                    \* bound
    /\ content' = [items |-> items, returned |-> <<>>, expected |-> <<>>]

AppendValue(value) ==
    /\ list' = AtEnd(value)
    /\ Grows(Append(content.items, value))

PrependValue(value) ==
    /\ list' = AtFront(value)
    /\ Grows(<<value>> \o content.items)

InsertValue(index, value) ==
    /\ index <= list.count
    /\ list' = IF index = 0 THEN AtFront(value)
               ELSE IF index = list.count THEN AtEnd(value)
               ELSE Behind(NodeAt(index - 1), value)
    /\ Grows(InsertAt(content.items, index + 1, value))

RemoveIndex(index) ==
    /\ index < list.count
    /\ LET removed == IF index = 0 THEN list.head ELSE list.next[NodeAt(index - 1)]
           cut == IF index = 0 THEN [list EXCEPT !.head = list.next[removed]]
                  ELSE [list EXCEPT !.next[NodeAt(index - 1)] = list.next[removed]]
       IN  /\ list' = Without(cut, removed)
           /\ content' = [items |-> RemoveAt(content.items, index + 1),
                          returned |-> <<list.value[removed]>>,
                          expected |-> <<content.items[index + 1]>>]

ListNext ==
    \/ \E value \in NodeValues :
          \/ AppendValue(value) \/ PrependValue(value)
          \/ \E index \in 0..MaxNodes : InsertValue(index, value)
    \/ \E index \in 0..MaxNodes : RemoveIndex(index)

listVars == <<list, content>>

ListSpec == ListInit /\ [][ListNext]_listVars

-----------------------------------------------------------------------------
ListTypeOK ==
    /\ list.head \in Nodes \cup {NoNode} /\ list.count \in 0..MaxNodes
    /\ list.value \in [Nodes -> NodeValues] /\ list.next \in [Nodes -> Nodes \cup {NoNode}]
    /\ content.items \in Seq(NodeValues)

\* The chain from the head is the sequence the callers have built: it ends, it
\* holds every node once, the count kept apart is its length, and a search finds
\* the first place of a value (linked_list.py:16-99).
ChainIsSequence ==
    /\ ToArray = content.items /\ list.count = Length
    /\ IsInjective([i \in 1..Length |-> Walk[i - 1]])
    /\ Cardinality(Nodes) = Length
    /\ content.returned = content.expected
    /\ \A value \in NodeValues :
          IF IndexOf(value) = -1 THEN value \notin ToSet(content.items)
          ELSE /\ content.items[IndexOf(value) + 1] = value
               /\ \A i \in 1..IndexOf(value) : content.items[i] # value
=============================================================================
