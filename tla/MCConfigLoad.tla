----------------------------- MODULE MCConfigLoad -----------------------------
EXTENDS ConfigLoad

CONSTANTS a, b, ra, rb, rab, rx, s1, s2, p1, p2, k1, k2, q1, q2

MCMatches == (ra :> {a}) @@ (rb :> {b}) @@ (rab :> {a, b, Unset}) @@ (rx :> {})

RefLists == {<<>>, <<ra>>, <<ra, ra>>, <<ra, rab>>, <<rab, ra>>, <<rab>>, <<rb, rx>>}

Literals == [secret : {Literal}, place : {p1}, key : {k1}]

References == [secret : {s1, s2}, place : {p1, p2}, key : {k1, NoKey}]

OneTarget == {"t" :> d : d \in Literals \cup References}

TwoTargets == {("t" :> d) @@ ("u" :> e) : d \in Literals \cup References, e \in References}

Collector(n, i) == [name |-> n, interval |-> i, queries |-> {q1}, metrics |-> {q1, Own}]

Unsound == [Collector(a, 1) EXCEPT !.metrics = {q2}]

Both == [readable |-> TRUE, inline |-> <<Collector(a, Unset)>>, files |-> <<Collector(b, 1)>>, global |-> 2,
         target |-> <<>>, jobs |-> <<>>, env |-> <<>>]

\* Files of collectors, good and bad, with one target.
FileDocuments ==
  {[Both EXCEPT !.readable = s, !.inline = i, !.files = f, !.target = <<[refs |-> <<ra>>, targets |-> ts]>>] :
     s \in BOOLEAN, ts \in {"t" :> d : d \in Literals} \cup {<< >>},
     i \in {<<>>, <<Collector(a, Unset)>>, <<Unsound>>},
     f \in {<<>>, <<Collector(b, Unset)>>, <<Collector(a, 1)>>, <<Unsound>>, <<Collector(Unset, 1)>>,
            <<Collector(b, 1), Collector(b, Unset)>>}}

\* References of a target, the file's and the environment's, and of jobs, and
\* the data source name of the environment.  rab is the pattern that matches all
\* names, and none.
Environments ==
  {<<>>} \cup {<<[refs |-> r, targets |-> ts]>> :
                r \in {<<>>, <<ra, ra>>, <<rab>>}, ts \in {<< >>, "t" :> [secret |-> s1, place |-> p1, key |-> k1],
                                                        "t" :> [secret |-> Literal, place |-> p2, key |-> NoKey]}}

RefDocuments ==
  {[Both EXCEPT !.target = t, !.env = e, !.jobs = j, !.inline[1].name = n] :
     n \in {a, Unset}, e \in Environments,
     t \in {<<>>} \cup {<<[refs |-> r, targets |-> "t" :> d]>> : r \in RefLists, d \in Literals},
     j \in {<<>>} \cup {<<[refs |-> r, targets |-> "t" :> d], [refs |-> <<rb>>, targets |-> "t" :> d]>> :
                          r \in RefLists, d \in Literals}
           \cup {<<[refs |-> <<ra>>, targets |-> << >>]>>}}

\* Secrets of two jobs.
SecretDocuments ==
  {[Both EXCEPT !.jobs = <<[refs |-> <<ra>>, targets |-> t], [refs |-> <<rb>>, targets |-> u]>>] :
     t \in TwoTargets, u \in OneTarget}

MCDocument == FileDocuments \cup RefDocuments \cup SecretDocuments
=============================================================================
