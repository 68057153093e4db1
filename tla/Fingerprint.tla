---------------------------- MODULE Fingerprint ----------------------------
(***************************************************************************)
(* stableStringify(): request bodies as text in which the order of an      *)
(* object's members does not show.  A text is the sequence of its tokens.  *)
(* The name of a member is a number, ordered as sort() orders the names.   *)
(***************************************************************************)
EXTENDS Naturals, Sequences, SequencesExt

\* A body as express parses it: members in the order in which they were sent.
Leaf(text) == [kind |-> "leaf", text |-> text, names |-> <<>>, items |-> <<>>]
List(items) == [kind |-> "list", text |-> "", names |-> <<>>, items |-> items]
Object(names, items) ==
    [kind |-> "object", text |-> "", names |-> names, items |-> items]

Join(parts) ==
    IF parts = <<>> THEN <<>>
    ELSE Tail(FlattenSeq([i \in DOMAIN parts |-> <<",">> \o parts[i]]))

\* Variant: the members of an object are left in the order they were sent.
Enclose_Unsorted(v, texts) ==
    CASE v.kind = "leaf" -> <<v.text>>
      [] v.kind = "list" -> <<"[">> \o Join(texts) \o <<"]">>
      [] v.kind = "object" ->
           <<"{">> \o Join([i \in DOMAIN texts |->
                <<ToString(v.names[i]), ":">> \o texts[i]]) \o <<"}">>

\* The text of v, given the texts of its items.
Enclose(v, texts) ==
    CASE v.kind = "leaf" -> <<v.text>>
      [] v.kind = "list" -> <<"[">> \o Join(texts) \o <<"]">>
      [] v.kind = "object" ->
           LET sorted == SetToSortSeq(DOMAIN texts,
                             LAMBDA i, j : v.names[i] < v.names[j])
           IN  <<"{">> \o Join([i \in DOMAIN sorted |->
                    <<ToString(v.names[sorted[i]]), ":">> \o texts[sorted[i]]])
               \o <<"}">>

RECURSIVE stableStringify(_)
stableStringify(v) ==
    Enclose(v, [i \in DOMAIN v.items |-> stableStringify(v.items[i])])

-----------------------------------------------------------------------------
\* The same data: equal leaves, lists equal item by item, objects that give
\* the same value to the same names.
RECURSIVE SameData(_, _)
SameData(v, w) ==
    /\ v.kind = w.kind /\ v.text = w.text /\ Len(v.items) = Len(w.items)
    /\ IF v.kind = "object"
       THEN \A i \in DOMAIN v.items : \E j \in DOMAIN w.items :
                v.names[i] = w.names[j] /\ SameData(v.items[i], w.items[j])
       ELSE \A i \in DOMAIN v.items : SameData(v.items[i], w.items[i])

\* All values over some leaves, nested one level deeper than `values`, with at
\* most two items.
Nested(values) ==
    values \cup {List(s) : s \in SeqOf(values, 2)}
           \cup {Object(n, s) : n \in {<<1, 2>>, <<2, 1>>}, s \in [1..2 -> values]}
           \cup {Object(<<n>>, <<v>>) : n \in {1, 2}, v \in values}
           \cup {Object(<<>>, <<>>)}

\* "Two requests with the same data but different key ordering hash
\* identically", and requests with other data do not: two bodies have the same
\* text exactly if they are the same data.
CanonicalOver(values) ==
    \A v, w \in values :
        stableStringify(v) = stableStringify(w) <=> SameData(v, w)
=============================================================================
