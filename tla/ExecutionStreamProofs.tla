------------------------ MODULE ExecutionStreamProofs ------------------------
(***************************************************************************)
(* The walk of a functional graph, for every graph, scope, number of       *)
(* requests and order of their steps.                                      *)
(***************************************************************************)
EXTENDS ExecutionStream, WellFoundedInduction, TLAPS

\* A set of node ids has a least one.
LEMMA LeastId ==
  ASSUME NEW S \in SUBSET Nat, S # {}
  PROVE  \E n \in S : \A m \in S : n <= m
<1>1. PICK n \in S : \A m \in S : <<m, n>> \notin OpToRel(<, Nat)
  BY NatLessThanWellFounded, WFMin
<1>2. \A m \in S : ~(m < n)
  BY <1>1 DEF OpToRel
<1> QED BY <1>2

-----------------------------------------------------------------------------
\* The nodes of the graphs that are sent, each with the request it comes in.
Places == UNION {{q} \X Nodes(q.graph) : q \in Requests}
CfgAt(p) == p[1].graph.cfg[p[2]]
FeedsAt(p) == p[1].graph.feeds[p[2]]
SourceAt(p, i) == <<p[1], FeedsAt(p)[i].src>>

\* Nodes that the cache cannot tell apart: cacheable, configured alike, and fed on
\* the same IN ports by nodes that it cannot tell apart.
Matches(R) ==
  \A e \in R : /\ CfgAt(e[1]) = CfgAt(e[2]) /\ CfgAt(e[1]) \in Cacheable
              /\ DOMAIN FeedsAt(e[1]) = DOMAIN FeedsAt(e[2])
              /\ \A i \in DOMAIN FeedsAt(e[1]) :
                   /\ FeedsAt(e[1])[i].port = FeedsAt(e[2])[i].port
                   /\ <<SourceAt(e[1], i), SourceAt(e[2], i)>> \in R
OneKey(p1, p2) == \E R \in SUBSET (Places \X Places) : Matches(R) /\ <<p1, p2>> \in R

\* What a cache key leaves out does no harm where it never differs: nodes of one
\* key read the same OUT ports, however many their sources have.
KeysTellPorts ==
  \A p1, p2 \in Places : OneKey(p1, p2) =>
    \A i \in DOMAIN FeedsAt(p1) : FeedsAt(p1)[i].out = FeedsAt(p2)[i].out

-----------------------------------------------------------------------------
Lively(r) == stage[r] \notin {"idle", "rejected"}
AtNode(r) == stage[r] \in {"bind", "execute", "broken"}

\* The parts of the inductive invariant, each about one run: what it was asked,
\* the order it follows, the node in hand, what it has settled, what is bound
\* so far.
Asked(r) ==
  /\ (stage[r] = "idle") = (request[r] = None)
  /\ IF Lively(r) THEN Accepts(request[r]) /\ only[r] = InScope(request[r])
                  ELSE only[r] = {} /\ popped[r] = {}

Ordered(r) ==
  Lively(r) => /\ popped[r] \subseteq Nodes(GraphOf(r))
               /\ \A n \in popped[r] : Sources(GraphOf(r), n) \subseteq popped[r]
               /\ stage[r] = "done" => popped[r] = Nodes(GraphOf(r))

InHand(r) ==
  /\ AtNode(r) => cur[r] \in only[r] \cap popped[r] /\ cur[r] \notin DOMAIN status[r]
  /\ stage[r] \in {"put", "save"} => cur[r] \in Done(r)
  /\ stage[r] = "put" => cur[r] \in DOMAIN hash[r] /\ hash[r][cur[r]] # None
  /\ only[r] \cap popped[r] = DOMAIN status[r] \cup (IF AtNode(r) THEN {cur[r]} ELSE {})

Settled(r) ==
  /\ \A n \in DOMAIN status[r] : status[r][n] \in {"ok", "cached", "error", "skipped"}
  /\ DOMAIN result[r] = Done(r) /\ DOMAIN hash[r] \subseteq DOMAIN status[r]
  /\ \A n \in DOMAIN hash[r] : hash[r][n] # None => n \in Done(r)

BoundAt(r, i) ==
  LET f == Feeds(r)[i]
      b == bound[r][i]
  IN  /\ b = [port |-> f.port, of |-> b.of, out |-> f.out, key |-> b.key]
      /\ b.key # None => f.src \in Done(r) \cap DOMAIN hash[r] /\ b.key = hash[r][f.src]
      /\ f.src \in Done(r) => b.of = result[r][f.src]
      /\ StandsAlone(r) => f.src \in Done(r)

Bindings(r) ==
  AtNode(r) => /\ \E S : bound[r] \in Seq(S)
               /\ Len(bound[r]) <= Len(Feeds(r))
               /\ stage[r] = "execute" => Len(bound[r]) = Len(Feeds(r))
               /\ \A i \in 1..Len(bound[r]) : BoundAt(r, i)

\* The properties of the runs, of one run.
Fresh(r) ==
  KeysTellPorts => \A n \in DOMAIN status[r] : status[r][n] = "cached" =>
    LET feeds == GraphOf(r).feeds[n] IN
    /\ Sources(GraphOf(r), n) \subseteq Done(r)
    /\ result[r][n] = Term(GraphOf(r).cfg[n],
         [i \in DOMAIN feeds |-> [port |-> feeds[i].port, of |-> result[r][feeds[i].src],
                                  out |-> feeds[i].out]], None)

Alone(r) ==
  KeysTellPorts => (StandsAlone(r) =>
    \A n \in Done(r) : \A i \in DOMAIN result[r][n].feeds :
      LET f == GraphOf(r).feeds[n][i] IN
      f.src \in Done(r) /\ result[r][n].feeds[i].of = result[r][f.src])

Caused(r) ==
  StandsAlone(r) =>
    \A n \in DOMAIN status[r] : status[r][n] = "skipped" =>
      \E m \in Sources(GraphOf(r), n) \cap DOMAIN status[r] :
        status[r][m] \in {"error", "skipped"}

RunInv(r) == /\ Asked(r) /\ Ordered(r) /\ InHand(r) /\ Settled(r) /\ Bindings(r)
             /\ Fresh(r) /\ Alone(r) /\ Caused(r)

Shape ==
  /\ stage \in [Runs -> {"idle", "rejected", "next", "bind", "execute", "put", "save",
                        "broken", "done"}]
  /\ request \in [Runs -> Requests \cup {None}]
  /\ only \in [Runs -> SUBSET NodeIds] /\ popped \in [Runs -> SUBSET NodeIds]
  /\ DOMAIN cur = Runs /\ DOMAIN bound = Runs /\ DOMAIN status = Runs
  /\ DOMAIN result = Runs /\ DOMAIN hash = Runs
  /\ DOMAIN artifacts \subseteq NodeIds

\* Across runs, and across what is evicted and stored again, the invariant keeps
\* books of all the keys there have been, each with the node it was made for and
\* the output there: an entry is made from entries of the books, no key has two
\* outputs, and whatever a run or the cache holds under a key is in them.
Entry(p, b) == <<p, Term(CfgAt(p), Tagged(b), None), Term(CfgAt(p), Inputs(b), None)>>

MadeFrom(made, p, b) ==
  /\ p \in Places /\ CfgAt(p) \in Cacheable /\ DOMAIN b = DOMAIN FeedsAt(p)
  /\ \A i \in DOMAIN b :
       /\ b[i].port = FeedsAt(p)[i].port /\ b[i].out = FeedsAt(p)[i].out
       /\ <<SourceAt(p, i), b[i].key, b[i].of>> \in made

Grounded(made) == \A e \in made : \E p, b : MadeFrom(made, p, b) /\ e = Entry(p, b)
Unique(made) == \A e1, e2 \in made : e1[2] = e2[2] => e1[3] = e2[3]

Booked(made) ==
  /\ \A k \in DOMAIN cache : \E p : <<p, k, cache[k]>> \in made
  /\ \A r \in Runs : \A n \in DOMAIN hash[r] :
       hash[r][n] # None => <<<<request[r], n>>, hash[r][n], result[r][n]>> \in made

Books(made) == Grounded(made) /\ Unique(made) /\ Booked(made)

IInv == Shape /\ (KeysTellPorts => \E made : Books(made)) /\ \A r \in Runs : RunInv(r)

\* A run that a step leaves alone keeps its part of the invariant.
LEMMA OtherRuns ==
  ASSUME NEW r \in Runs, RunInv(r),
         stage'[r] = stage[r], request'[r] = request[r], only'[r] = only[r],
         popped'[r] = popped[r], cur'[r] = cur[r], bound'[r] = bound[r],
         status'[r] = status[r], result'[r] = result[r], hash'[r] = hash[r]
  PROVE  RunInv(r)'
<1>1. /\ Lively(r)' = Lively(r) /\ AtNode(r)' = AtNode(r) /\ Done(r)' = Done(r)
      /\ GraphOf(r)' = GraphOf(r) /\ StandsAlone(r)' = StandsAlone(r) /\ Feeds(r)' = Feeds(r)
  BY DEF Lively, AtNode, Done, GraphOf, StandsAlone, Feeds
<1>2. Asked(r)' BY <1>1 DEF RunInv, Asked
<1>3. Ordered(r)' BY <1>1 DEF RunInv, Ordered
<1>4. InHand(r)' BY <1>1 DEF RunInv, InHand
<1>5. Settled(r)' BY <1>1 DEF RunInv, Settled
<1>6. Bindings(r)'
  <2>1. \A i : BoundAt(r, i)' = BoundAt(r, i) BY <1>1 DEF BoundAt
  <2> QED BY <1>1, <2>1 DEF RunInv, Bindings
<1>7. Fresh(r)' BY <1>1 DEF RunInv, Fresh
<1>8. Alone(r)' BY <1>1 DEF RunInv, Alone
<1>9. Caused(r)' BY <1>1 DEF RunInv, Caused
<1> QED BY <1>2, <1>3, <1>4, <1>5, <1>6, <1>7, <1>8, <1>9 DEF RunInv

\* A run that has a node in hand has a graph, and that node is one of it.
LEMMA InGraph ==
  ASSUME Shape, NEW r \in Runs, RunInv(r), Lively(r)
  PROVE  /\ request[r] \in Requests /\ request[r] \in Request /\ Accepts(request[r])
         /\ Nodes(GraphOf(r)) \subseteq NodeIds
         /\ AtNode(r) => /\ cur[r] \in Nodes(GraphOf(r)) /\ Feeds(r) \in Seq(Feed)
<1>1. request[r] \in Requests /\ Accepts(request[r])
  BY DEF Shape, RunInv, Asked, Lively
<1>2. request[r] \in Request BY <1>1, RequestsAssumption
<1>3. GraphOf(r).cfg \in UNION {[N -> Configs] : N \in SUBSET NodeIds}
      /\ GraphOf(r).feeds \in [NodeIds -> Seq(Feed)]
  BY <1>2 DEF Request, Graph, GraphOf
<1>4. Nodes(GraphOf(r)) \subseteq NodeIds BY <1>3 DEF Nodes
<1>5. AtNode(r) => cur[r] \in Nodes(GraphOf(r)) BY DEF RunInv, InHand, Ordered
<1> QED BY <1>1, <1>2, <1>3, <1>4, <1>5 DEF Feeds

\* Nodes with one key in the books are nodes that the cache cannot tell apart.
LEMMA BooksMatch ==
  ASSUME NEW made, Grounded(made), NEW p1, NEW p2, NEW k, NEW v1, NEW v2,
         <<p1, k, v1>> \in made, <<p2, k, v2>> \in made
  PROVE  OneKey(p1, p2)
<1> DEFINE R == {e \in Places \X Places :
                   \E l, w1, w2 : <<e[1], l, w1>> \in made /\ <<e[2], l, w2>> \in made}
<1>1. \A q, l, w : <<q, l, w>> \in made =>
        \E b : MadeFrom(made, q, b) /\ l = Term(CfgAt(q), Tagged(b), None)
  BY DEF Grounded, Entry
<1>2. ASSUME NEW e \in R
      PROVE  /\ CfgAt(e[1]) = CfgAt(e[2]) /\ CfgAt(e[1]) \in Cacheable
             /\ DOMAIN FeedsAt(e[1]) = DOMAIN FeedsAt(e[2])
             /\ \A i \in DOMAIN FeedsAt(e[1]) :
                  /\ FeedsAt(e[1])[i].port = FeedsAt(e[2])[i].port
                  /\ <<SourceAt(e[1], i), SourceAt(e[2], i)>> \in R
  <2> DEFINE q1 == e[1]
             q2 == e[2]
  <2>1. PICK l, w1, w2 : <<q1, l, w1>> \in made /\ <<q2, l, w2>> \in made
    OBVIOUS
  <2>2. PICK b1 : MadeFrom(made, q1, b1) /\ l = Term(CfgAt(q1), Tagged(b1), None)
    BY <1>1, <2>1
  <2>3. PICK b2 : MadeFrom(made, q2, b2) /\ l = Term(CfgAt(q2), Tagged(b2), None)
    BY <1>1, <2>1
  <2>4. CfgAt(q1) = CfgAt(q2) /\ Tagged(b1) = Tagged(b2)
    BY <2>2, <2>3 DEF Term
  <2>5. /\ DOMAIN b1 = DOMAIN b2
        /\ DOMAIN FeedsAt(q1) = DOMAIN b1 /\ DOMAIN FeedsAt(q2) = DOMAIN b2
        /\ CfgAt(q1) \in Cacheable
    BY <2>2, <2>3, <2>4 DEF MadeFrom, Tagged
  <2>6. ASSUME NEW i \in DOMAIN b1
        PROVE  b1[i].port = b2[i].port /\ b1[i].key = b2[i].key
    <3>1. Tagged(b1)[i] = [port |-> b1[i].port, of |-> b1[i].key, out |-> Unsaid]
      BY DEF Tagged
    <3>2. Tagged(b2)[i] = [port |-> b2[i].port, of |-> b2[i].key, out |-> Unsaid]
      BY <2>5 DEF Tagged
    <3> QED BY <2>4, <3>1, <3>2
  <2>7. ASSUME NEW i \in DOMAIN b1
        PROVE  /\ FeedsAt(q1)[i].port = FeedsAt(q2)[i].port
               /\ <<SourceAt(q1, i), SourceAt(q2, i)>> \in R
    <3> DEFINE s1 == SourceAt(q1, i)
               s2 == SourceAt(q2, i)
    <3>1. <<s1, b1[i].key, b1[i].of>> \in made /\ <<s2, b1[i].key, b2[i].of>> \in made
      BY <2>2, <2>3, <2>5, <2>6 DEF MadeFrom
    <3>2. s1 \in Places /\ s2 \in Places
      BY <1>1, <3>1 DEF MadeFrom
    <3>3. FeedsAt(q1)[i].port = FeedsAt(q2)[i].port
      BY <2>2, <2>3, <2>5, <2>6 DEF MadeFrom
    <3> QED BY <3>1, <3>2, <3>3
  <2> HIDE DEF R, q1, q2
  <2>8. \A i \in DOMAIN FeedsAt(q1) : /\ FeedsAt(q1)[i].port = FeedsAt(q2)[i].port
                                      /\ <<SourceAt(q1, i), SourceAt(q2, i)>> \in R
    BY <2>5, <2>7
  <2> QED BY <2>4, <2>5, <2>8 DEF q1, q2
<1>3. p1 \in Places /\ p2 \in Places
  BY <1>1 DEF MadeFrom
<1>4. <<p1, p2>> \in R /\ R \in SUBSET (Places \X Places)
  BY <1>3
<1> HIDE DEF R
<1> QED BY <1>2, <1>4 DEF OneKey, Matches

\* What is made under a key from entries of the books is what the books have there:
\* the key names what feeds the node, the books their outputs, and the ports agree.
LEMMA OneOutput ==
  ASSUME KeysTellPorts, NEW made, Grounded(made), Unique(made),
         NEW p, NEW b, MadeFrom(made, p, b),
         NEW s, NEW v, <<s, Term(CfgAt(p), Tagged(b), None), v>> \in made
  PROVE  v = Term(CfgAt(p), Inputs(b), None)
<1> DEFINE k == Term(CfgAt(p), Tagged(b), None)
           more == made \cup {Entry(p, b)}
<1>1. PICK c : MadeFrom(made, s, c) /\ k = Term(CfgAt(s), Tagged(c), None)
               /\ v = Term(CfgAt(s), Inputs(c), None)
  BY DEF Grounded, Entry
<1>2. CfgAt(p) = CfgAt(s) /\ Tagged(b) = Tagged(c)
  BY <1>1 DEF Term
<1>3. DOMAIN b = DOMAIN c
  BY <1>2 DEF Tagged
<1>4. \A i \in DOMAIN b : FeedsAt(p)[i].out = FeedsAt(s)[i].out
  <2>1. Grounded(more)
    BY DEF Grounded, MadeFrom
  <2>2. <<p, k, Term(CfgAt(p), Inputs(b), None)>> \in more /\ <<s, k, v>> \in more
    BY DEF Entry
  <2> HIDE DEF more, k
  <2>3. OneKey(p, s)
    BY <2>1, <2>2, BooksMatch
  <2> QED BY <1>1, <2>3 DEF KeysTellPorts, MadeFrom
<1>5. ASSUME NEW i \in DOMAIN b
      PROVE  b[i].port = c[i].port /\ b[i].of = c[i].of /\ b[i].out = c[i].out
  <2>1. Tagged(b)[i] = [port |-> b[i].port, of |-> b[i].key, out |-> Unsaid]
    BY DEF Tagged
  <2>2. Tagged(c)[i] = [port |-> c[i].port, of |-> c[i].key, out |-> Unsaid]
    BY <1>3 DEF Tagged
  <2>3. b[i].port = c[i].port /\ b[i].key = c[i].key
    BY <1>2, <2>1, <2>2
  <2>4. /\ <<SourceAt(p, i), b[i].key, b[i].of>> \in made
        /\ <<SourceAt(s, i), c[i].key, c[i].of>> \in made
        /\ b[i].out = FeedsAt(p)[i].out /\ c[i].out = FeedsAt(s)[i].out
    BY <1>1, <1>3 DEF MadeFrom
  <2>5. b[i].of = c[i].of
    BY <2>3, <2>4 DEF Unique
  <2> QED BY <1>4, <2>3, <2>4, <2>5
<1>6. Inputs(b) = Inputs(c)
  BY <1>3, <1>5 DEF Inputs
<1> QED BY <1>1, <1>2, <1>6

\* The books can take what is made from entries of them.
LEMMA BooksGrow ==
  ASSUME KeysTellPorts, NEW made, Grounded(made), Unique(made), NEW p, NEW b, MadeFrom(made, p, b)
  PROVE  \E more : made \subseteq more /\ Grounded(more) /\ Unique(more) /\ Entry(p, b) \in more
<1> DEFINE more == made \cup {Entry(p, b)}
<1>1. Grounded(more)
  BY DEF Grounded, MadeFrom
<1>2. Unique(more)
  <2>1. \A s, w : <<s, Entry(p, b)[2], w>> \in made => w = Entry(p, b)[3]
    BY OneOutput DEF Entry
  <2>2. \A e \in made : \E x, y, z : e = <<x, y, z>>
    BY DEF Grounded, Entry
  <2>3. \A e \in made : e[2] = Entry(p, b)[2] => e[3] = Entry(p, b)[3]
    BY <2>1, <2>2
  <2> QED BY <2>3 DEF Unique
<1> QED BY <1>1, <1>2

\* When all that feeds a node has a hash, its key is made from what is in the
\* books, with the very inputs that are bound to it.
LEMMA KeyIsMade ==
  ASSUME Shape, NEW r \in Runs, RunInv(r), AtNode(r), NEW made, Books(made),
         Len(bound[r]) = Len(Feeds(r)), NodeHash(Config(r), bound[r]) # None
  PROVE  /\ Config(r) \in Cacheable
         /\ NodeHash(Config(r), bound[r]) = Term(Config(r), Tagged(bound[r]), None)
         /\ MadeFrom(made, <<request[r], cur[r]>>, bound[r])
         /\ \A i \in 1..Len(Feeds(r)) : Feeds(r)[i].src \in Done(r)
<1> DEFINE p == <<request[r], cur[r]>>
<1>0. PICK S : bound[r] \in Seq(S) BY DEF RunInv, Bindings
<1>1. /\ Feeds(r) \in Seq(Feed) /\ request[r] \in Requests /\ cur[r] \in Nodes(request[r].graph)
  BY InGraph DEF AtNode, Lively, GraphOf
<1>2. /\ DOMAIN bound[r] = 1..Len(Feeds(r)) /\ DOMAIN Feeds(r) = 1..Len(Feeds(r))
  BY <1>0, <1>1
<1>3. /\ Config(r) \in Cacheable /\ \A i \in DOMAIN bound[r] : bound[r][i].key # None
      /\ NodeHash(Config(r), bound[r]) = Term(Config(r), Tagged(bound[r]), None)
  BY DEF NodeHash
<1>4. p \in Places /\ CfgAt(p) = Config(r) /\ FeedsAt(p) = Feeds(r)
  BY <1>1 DEF Places, CfgAt, FeedsAt, Config, Feeds, GraphOf
<1>5. ASSUME NEW i \in DOMAIN bound[r]
      PROVE  /\ bound[r][i].port = Feeds(r)[i].port /\ bound[r][i].out = Feeds(r)[i].out
             /\ <<SourceAt(p, i), bound[r][i].key, bound[r][i].of>> \in made
             /\ Feeds(r)[i].src \in Done(r)
  <2> DEFINE b == bound[r][i]
             f == Feeds(r)[i]
  <2>1. /\ f.src \in Done(r) \cap DOMAIN hash[r] /\ b.key = hash[r][f.src] /\ b.key # None
        /\ b.of = result[r][f.src] /\ b.port = f.port /\ b.out = f.out
    <3>1. BoundAt(r, i) BY <1>0, <1>2 DEF RunInv, Bindings
    <3> QED BY <1>3, <3>1 DEF BoundAt
  <2>2. SourceAt(p, i) = <<request[r], f.src>> BY <1>4 DEF SourceAt
  <2> QED BY <2>1, <2>2 DEF Books, Booked
<1> HIDE DEF p
<1>6. MadeFrom(made, p, bound[r]) BY <1>2, <1>3, <1>4, <1>5 DEF MadeFrom
<1> QED BY <1>2, <1>3, <1>5, <1>6 DEF p

\* What the cache holds under it is what the node would compute.
LEMMA HitIsOutput ==
  ASSUME Shape, KeysTellPorts, \E made : Books(made), NEW r \in Runs, RunInv(r), AtNode(r),
         Len(bound[r]) = Len(Feeds(r)), NodeHash(Config(r), bound[r]) # None,
         NodeHash(Config(r), bound[r]) \in DOMAIN cache
  PROVE  /\ cache[NodeHash(Config(r), bound[r])] = Term(Config(r), Inputs(bound[r]), None)
         /\ Config(r) \in Cacheable
         /\ \A i \in 1..Len(Feeds(r)) : Feeds(r)[i].src \in Done(r)
<1> DEFINE h == NodeHash(Config(r), bound[r])
           p == <<request[r], cur[r]>>
<1>1. PICK made : Books(made) OBVIOUS
<1>2. /\ h = Term(Config(r), Tagged(bound[r]), None) /\ MadeFrom(made, p, bound[r])
      /\ Config(r) \in Cacheable /\ \A i \in 1..Len(Feeds(r)) : Feeds(r)[i].src \in Done(r)
  BY <1>1, KeyIsMade
<1>3. CfgAt(p) = Config(r) BY DEF CfgAt, Config, GraphOf
<1>4. PICK s : <<s, Term(CfgAt(p), Tagged(bound[r]), None), cache[h]>> \in made
  BY <1>1, <1>2, <1>3 DEF Books, Booked
<1>5. Grounded(made) /\ Unique(made) BY <1>1 DEF Books
<1> HIDE DEF h, p
<1>6. cache[h] = Term(CfgAt(p), Inputs(bound[r]), None) BY <1>2, <1>4, <1>5, OneOutput
<1> QED BY <1>2, <1>3, <1>6 DEF h

\* What the inputs bound to a node are when all of them come from this run.
LEMMA InputsOfThisRun ==
  ASSUME Shape, NEW r \in Runs, RunInv(r), AtNode(r), Len(bound[r]) = Len(Feeds(r)),
         NEW i \in DOMAIN Inputs(bound[r])
  PROVE  /\ i \in 1..Len(Feeds(r))
         /\ Feeds(r)[i].src \in Done(r) =>
              Inputs(bound[r])[i] = [port |-> Feeds(r)[i].port, of |-> result[r][Feeds(r)[i].src],
                                     out |-> Feeds(r)[i].out]
         /\ StandsAlone(r) => Feeds(r)[i].src \in Done(r)
<1>0. PICK S : bound[r] \in Seq(S) BY DEF RunInv, Bindings
<1>1. DOMAIN bound[r] = 1..Len(bound[r]) /\ DOMAIN Inputs(bound[r]) = DOMAIN bound[r]
  BY <1>0 DEF Inputs
<1>2. BoundAt(r, i) BY <1>1 DEF RunInv, Bindings
<1>3. /\ bound[r][i].port = Feeds(r)[i].port /\ bound[r][i].out = Feeds(r)[i].out
  BY <1>2 DEF BoundAt
<1> QED BY <1>1, <1>2, <1>3 DEF BoundAt, Inputs

\* Then a node is given the results of what feeds it.
LEMMA InputsAreResults ==
  ASSUME Shape, NEW r \in Runs, RunInv(r), AtNode(r), Len(bound[r]) = Len(Feeds(r)),
         \A i \in 1..Len(Feeds(r)) : Feeds(r)[i].src \in Done(r)
  PROVE  /\ Sources(GraphOf(r), cur[r]) \subseteq Done(r)
         /\ Inputs(bound[r]) = [i \in DOMAIN Feeds(r) |->
              [port |-> Feeds(r)[i].port, of |-> result[r][Feeds(r)[i].src],
               out |-> Feeds(r)[i].out]]
<1>1. DOMAIN Feeds(r) = 1..Len(Feeds(r))
  <2>1. Feeds(r) \in Seq(Feed) BY InGraph DEF AtNode, Lively
  <2> QED BY <2>1
<1>2. DOMAIN Inputs(bound[r]) = DOMAIN Feeds(r)
  <2>1. PICK S : bound[r] \in Seq(S) BY DEF RunInv, Bindings
  <2> QED BY <1>1, <2>1 DEF Inputs
<1>3. Sources(GraphOf(r), cur[r]) \subseteq Done(r) BY <1>1 DEF Sources, Feeds
<1>4. \A i \in DOMAIN Inputs(bound[r]) : Inputs(bound[r])[i] =
        [port |-> Feeds(r)[i].port, of |-> result[r][Feeds(r)[i].src], out |-> Feeds(r)[i].out]
  BY InputsOfThisRun
<1> QED BY <1>2, <1>3, <1>4 DEF Inputs

\* A node settles with an output.
LEMMA SettleKeeps ==
  ASSUME Shape, NEW r \in Runs, RunInv(r), AtNode(r),
         NEW st \in {"ok", "cached"}, NEW v, NEW h, Settle(r, st, v, h),
         stage'[r] \in {"put", "save"}, stage'[r] = "put" => h # None,
         UNCHANGED <<request, only, popped, cur, bound>>,
         KeysTellPorts /\ StandsAlone(r) => \A i \in DOMAIN v.feeds :
           Feeds(r)[i].src \in Done(r) /\ v.feeds[i].of = result[r][Feeds(r)[i].src],
         KeysTellPorts /\ st = "cached" =>
           /\ Sources(GraphOf(r), cur[r]) \subseteq Done(r)
           /\ v = Term(Config(r), [i \in DOMAIN Feeds(r) |->
                     [port |-> Feeds(r)[i].port, of |-> result[r][Feeds(r)[i].src],
                      out |-> Feeds(r)[i].out]], None)
  PROVE  RunInv(r)'
<1> DEFINE c == cur[r]
<1>1. /\ status'[r] = Put(status[r], c, st) /\ result'[r] = Put(result[r], c, v)
      /\ hash'[r] = Put(hash[r], c, h)
  BY DEF Settle, Shape
<1>2. /\ DOMAIN status'[r] = DOMAIN status[r] \cup {c} /\ status'[r][c] = st
      /\ \A n \in DOMAIN status[r] : status'[r][n] = status[r][n]
      /\ DOMAIN result'[r] = DOMAIN result[r] \cup {c} /\ result'[r][c] = v
      /\ DOMAIN hash'[r] = DOMAIN hash[r] \cup {c} /\ hash'[r][c] = h
      /\ \A n \in DOMAIN hash[r] : n # c => hash'[r][n] = hash[r][n]
      /\ \A n \in DOMAIN result[r] : n # c => result'[r][n] = result[r][n]
      /\ c \notin DOMAIN status[r]
  BY <1>1 DEF Put, RunInv, InHand
<1>3. /\ Done(r)' = Done(r) \cup {c} /\ c \notin Done(r) /\ Done(r) \subseteq DOMAIN status[r]
      /\ DOMAIN result[r] = Done(r) /\ DOMAIN hash[r] \subseteq DOMAIN status[r]
  BY <1>2 DEF Done, RunInv, Settled
<1>4. \A n \in Done(r) : result'[r][n] = result[r][n]
  BY <1>2, <1>3
<1>5. GraphOf(r)' = GraphOf(r) /\ StandsAlone(r)' = StandsAlone(r) /\ ~AtNode(r)' /\ Lively(r)' /\ Lively(r)
  BY DEF GraphOf, StandsAlone, AtNode, Lively
<1>6. Asked(r)' BY <1>5 DEF RunInv, Asked, AtNode
<1>7. Ordered(r)' BY <1>5 DEF RunInv, Ordered
<1>8. InHand(r)' BY <1>2, <1>3, <1>5 DEF RunInv, InHand, AtNode
<1>9. Settled(r)'
  <2>1. \A n \in DOMAIN status'[r] : status'[r][n] \in {"ok", "cached", "error", "skipped"}
    BY <1>2 DEF RunInv, Settled
  <2>2. DOMAIN result'[r] = Done(r)' /\ DOMAIN hash'[r] \subseteq DOMAIN status'[r]
    BY <1>2, <1>3
  <2>3. ASSUME NEW n \in DOMAIN hash'[r], hash'[r][n] # None
        PROVE  n \in Done(r)'
    <3>1. CASE n = c BY <1>3, <3>1
    <3>2. CASE n # c
      <4>1. n \in DOMAIN hash[r] /\ hash'[r][n] = hash[r][n] BY <1>2, <3>2
      <4> QED BY <1>3, <2>3, <4>1 DEF RunInv, Settled
    <3> QED BY <3>1, <3>2
  <2> QED BY <2>1, <2>2, <2>3 DEF Settled
<1>10. Bindings(r)' BY <1>5, Zenon DEF Bindings
<1>11. Fresh(r)'
  <2> SUFFICES ASSUME KeysTellPorts, NEW n \in DOMAIN status'[r], status'[r][n] = "cached"
               PROVE  LET feeds == GraphOf(r).feeds[n] IN
                      /\ Sources(GraphOf(r), n) \subseteq Done(r)'
                      /\ result'[r][n] = Term(GraphOf(r).cfg[n],
                           [i \in DOMAIN feeds |-> [port |-> feeds[i].port,
                             of |-> result'[r][feeds[i].src], out |-> feeds[i].out]], None)
    BY <1>5 DEF Fresh
  <2> DEFINE fs == GraphOf(r).feeds[n]
  <2>1. Sources(GraphOf(r), n) \subseteq Done(r)
        /\ result'[r][n] = Term(GraphOf(r).cfg[n], [i \in DOMAIN fs |->
             [port |-> fs[i].port, of |-> result[r][fs[i].src], out |-> fs[i].out]], None)
    <3>1. CASE n = c BY <1>2, <3>1 DEF Feeds, Config
    <3>2. CASE n # c
      <4>1. n \in Done(r) /\ status[r][n] = "cached" BY <1>2, <3>2 DEF Done
      <4> QED BY <1>4, <4>1, <1>3 DEF RunInv, Fresh
    <3> QED BY <3>1, <3>2
  <2>2. \A i \in DOMAIN fs : result'[r][fs[i].src] = result[r][fs[i].src]
    BY <2>1, <1>4 DEF Sources
  <2>3. [i \in DOMAIN fs |-> [port |-> fs[i].port, of |-> result[r][fs[i].src], out |-> fs[i].out]]
        = [i \in DOMAIN fs |-> [port |-> fs[i].port, of |-> result'[r][fs[i].src], out |-> fs[i].out]]
    BY <2>2
  <2> QED BY <1>3, <2>1, <2>3
<1>12. Alone(r)'
  <2> SUFFICES ASSUME KeysTellPorts, StandsAlone(r), NEW n \in Done(r)',
                      NEW i \in DOMAIN result'[r][n].feeds
               PROVE  /\ GraphOf(r).feeds[n][i].src \in Done(r)'
                      /\ result'[r][n].feeds[i].of = result'[r][GraphOf(r).feeds[n][i].src]
    BY <1>5, SMTT(20) DEF Alone
  <2>1. CASE n = c BY <1>2, <1>3, <1>4, <2>1 DEF Feeds
  <2>2. CASE n # c
    <3>1. n \in Done(r) /\ result'[r][n] = result[r][n] BY <1>3, <1>4, <2>2
    <3>2. /\ GraphOf(r).feeds[n][i].src \in Done(r)
          /\ result[r][n].feeds[i].of = result[r][GraphOf(r).feeds[n][i].src]
      BY <3>1 DEF RunInv, Alone
    <3> QED BY <3>1, <3>2, <1>3, <1>4
  <2> QED BY <2>1, <2>2
<1>13. Caused(r)'
  BY <1>2, <1>5 DEF RunInv, Caused
<1> QED BY <1>6, <1>7, <1>8, <1>9, <1>10, <1>11, <1>12, <1>13 DEF RunInv

\* A node settles without one.
LEMMA FailKeeps ==
  ASSUME Shape, NEW r \in Runs, RunInv(r), AtNode(r),
         NEW st \in {"error", "skipped"}, status' = [status EXCEPT ![r] = Put(@, cur[r], st)],
         hash'[r] \in {hash[r], Put(hash[r], cur[r], None)}, stage'[r] = "next",
         UNCHANGED <<request, only, popped, cur, bound, result>>,
         st = "skipped" /\ StandsAlone(r) =>
           \E m \in Sources(GraphOf(r), cur[r]) \cap DOMAIN status[r] :
             status[r][m] \in {"error", "skipped"}
  PROVE  RunInv(r)'
<1> DEFINE c == cur[r]
<1>1. status'[r] = Put(status[r], c, st) BY DEF Shape
<1>2. /\ DOMAIN status'[r] = DOMAIN status[r] \cup {c} /\ status'[r][c] = st
      /\ \A n \in DOMAIN status[r] : status'[r][n] = status[r][n]
      /\ DOMAIN hash'[r] \subseteq DOMAIN hash[r] \cup {c}
      /\ \A n \in DOMAIN hash'[r] : n # c => n \in DOMAIN hash[r] /\ hash'[r][n] = hash[r][n]
      /\ c \notin DOMAIN status[r] /\ DOMAIN hash[r] \subseteq DOMAIN status[r]
      /\ c \in DOMAIN hash'[r] => hash'[r][c] = None
  BY <1>1 DEF Put, RunInv, InHand, Settled
<1>3. Done(r)' = Done(r) /\ c \notin Done(r) /\ result'[r] = result[r]
  BY <1>2 DEF Done
<1>5. GraphOf(r)' = GraphOf(r) /\ StandsAlone(r)' = StandsAlone(r) /\ ~AtNode(r)' /\ Lively(r)' /\ Lively(r)
  BY DEF GraphOf, StandsAlone, AtNode, Lively
<1>6. Asked(r)' BY <1>5 DEF RunInv, Asked, AtNode
<1>7. Ordered(r)' BY <1>5 DEF RunInv, Ordered
<1>8. InHand(r)' BY <1>2, <1>3, <1>5 DEF RunInv, InHand, AtNode
<1>9. Settled(r)'
  <2>1. \A n \in DOMAIN status'[r] : status'[r][n] \in {"ok", "cached", "error", "skipped"}
    BY <1>2 DEF RunInv, Settled
  <2>2. DOMAIN result'[r] = Done(r)' /\ DOMAIN hash'[r] \subseteq DOMAIN status'[r]
    BY <1>2, <1>3 DEF RunInv, Settled
  <2>3. ASSUME NEW n \in DOMAIN hash'[r], hash'[r][n] # None
        PROVE  n \in Done(r)'
    BY <1>2, <1>3, <2>3 DEF RunInv, Settled
  <2> QED BY <2>1, <2>2, <2>3 DEF Settled
<1>10. Bindings(r)' BY <1>5, Zenon DEF Bindings
<1>11. Fresh(r)'
  <2> SUFFICES ASSUME KeysTellPorts, NEW n \in DOMAIN status'[r], status'[r][n] = "cached"
               PROVE  LET feeds == GraphOf(r).feeds[n] IN
                      /\ Sources(GraphOf(r), n) \subseteq Done(r)
                      /\ result[r][n] = Term(GraphOf(r).cfg[n],
                           [i \in DOMAIN feeds |-> [port |-> feeds[i].port,
                             of |-> result[r][feeds[i].src], out |-> feeds[i].out]], None)
    BY <1>3, <1>5 DEF Fresh
  <2>1. n \in DOMAIN status[r] /\ status[r][n] = "cached" BY <1>2
  <2> QED BY <2>1 DEF RunInv, Fresh
<1>12. Alone(r)' BY <1>3, <1>5 DEF RunInv, Alone
<1>13. Caused(r)'
  <2> SUFFICES ASSUME StandsAlone(r), NEW n \in DOMAIN status'[r], status'[r][n] = "skipped"
               PROVE  \E m \in Sources(GraphOf(r), n) \cap DOMAIN status[r] :
                        status[r][m] \in {"error", "skipped"}
    BY <1>2, <1>5 DEF Caused
  <2> QED BY <1>2 DEF RunInv, Caused
<1> QED BY <1>6, <1>7, <1>8, <1>9, <1>10, <1>11, <1>12, <1>13 DEF RunInv

\* A step that only moves the thread on.
LEMMA MoveKeeps ==
  ASSUME Shape, NEW r \in Runs, RunInv(r), Lively(r),
         UNCHANGED <<request, only, popped, cur, bound, status, result, hash>>,
         \/ ~AtNode(r) /\ stage'[r] \in {"next", "save", "done"}
                      /\ (stage'[r] = "save" => stage[r] = "put")
                      /\ (stage'[r] = "done" => popped[r] = Nodes(GraphOf(r)))
         \/ /\ AtNode(r) /\ stage'[r] \in {"execute", "broken"}
            /\ stage'[r] = "execute" => Len(bound[r]) = Len(Feeds(r))
  PROVE  RunInv(r)'
<1>1. /\ Done(r)' = Done(r) /\ GraphOf(r)' = GraphOf(r) /\ Feeds(r)' = Feeds(r)
      /\ StandsAlone(r)' = StandsAlone(r) /\ Lively(r)' /\ AtNode(r)' = AtNode(r)
      /\ stage[r] # "idle" /\ stage'[r] # "idle"
      /\ stage'[r] = "execute" => Len(bound[r]) = Len(Feeds(r))
      /\ stage'[r] \in {"put", "save"} => stage[r] = "put"
      /\ stage'[r] = "put" => stage[r] = "put"
      /\ stage'[r] = "done" => popped[r] = Nodes(GraphOf(r))
  BY DEF Done, GraphOf, Feeds, StandsAlone, Lively, AtNode
<1>2. Asked(r)' BY <1>1 DEF RunInv, Asked
<1>3. Ordered(r)' BY <1>1 DEF RunInv, Ordered
<1>4. InHand(r)' BY <1>1 DEF RunInv, InHand
<1>5. Settled(r)' BY <1>1 DEF RunInv, Settled
<1>6. Bindings(r)'
  <2>1. ASSUME NEW i, BoundAt(r, i) PROVE BoundAt(r, i)'
    BY <1>1, <2>1 DEF BoundAt
  <2>2. AtNode(r) => /\ \E S : bound[r] \in Seq(S)
                     /\ Len(bound[r]) <= Len(Feeds(r))
                     /\ \A i \in 1..Len(bound[r]) : BoundAt(r, i)
    BY DEF RunInv, Bindings
  <2> QED BY <1>1, <2>1, <2>2 DEF Bindings
<1>7. Fresh(r)' BY <1>1 DEF RunInv, Fresh
<1>8. Alone(r)' BY <1>1 DEF RunInv, Alone
<1>9. Caused(r)' BY <1>1 DEF RunInv, Caused
<1> QED BY <1>2, <1>3, <1>4, <1>5, <1>6, <1>7, <1>8, <1>9 DEF RunInv

-----------------------------------------------------------------------------
\* A scope holds nodes of the graph only, and the ancestors of all of them when
\* it is the whole graph or closed under run_to.
LEMMA ScopeFacts ==
  ASSUME NEW q \in Request, Accepts(q)
  PROVE  /\ InScope(q) \subseteq Nodes(q.graph)
         /\ q.key \in {"all", "run_to"} =>
              \A n \in InScope(q) : Sources(q.graph, n) \subseteq InScope(q)
<1> DEFINE g == q.graph
<1>1. q.key \in {"all", "run_to", "run_from", "run_only"} BY DEF Request
<1>2. \A n \in Nodes(g) : Sources(g, n) \subseteq Nodes(g) BY DEF Accepts, Closed
<1>3. CASE q.key = "run_to"
  <2>1. InScope(q) = Ancestors(g, q.targets) BY <1>3 DEF InScope
  <2>2. ASSUME NEW n \in Ancestors(g, q.targets), NEW m \in Sources(g, n)
        PROVE  m \in Ancestors(g, q.targets)
    <3>1. n \in Nodes(g) /\ m \in Nodes(g) BY <1>2, <2>2 DEF Ancestors
    <3>2. ASSUME NEW S \in SUBSET Nodes(g), q.targets \subseteq S,
                 \A k \in S : Sources(g, k) \subseteq S
          PROVE  m \in S
      <4>1. n \in S BY <3>2 DEF Ancestors
      <4> QED BY <3>2, <4>1
    <3> QED BY <3>1, <3>2 DEF Ancestors
  <2> QED BY <1>3, <2>1, <2>2 DEF Ancestors
<1>4. CASE q.key = "all"
  <2>1. InScope(q) = Nodes(g) BY <1>4 DEF InScope
  <2> QED BY <1>2, <2>1
<1>5. CASE q.key = "run_from"
  <2>1. InScope(q) = Descendants(g, q.targets) BY <1>5 DEF InScope
  <2> QED BY <1>5, <2>1 DEF Descendants
<1>6. CASE q.key = "run_only"
  <2>1. InScope(q) = q.targets BY <1>6 DEF InScope
  <2> QED BY <1>6, <2>1 DEF Accepts
<1> QED BY <1>1, <1>3, <1>4, <1>5, <1>6

\* A graph that is accepted has a next node until all are passed.
LEMMA NextNode ==
  ASSUME NEW q \in Request, Accepts(q), Nodes(q.graph) \subseteq NodeIds,
         NEW done \in SUBSET Nodes(q.graph), done # Nodes(q.graph)
  PROVE  /\ FirstReady(q.graph, done) \in Nodes(q.graph) \ done
         /\ Sources(q.graph, FirstReady(q.graph, done)) \subseteq done
<1> DEFINE g == q.graph
           ready == {n \in Nodes(g) \ done : Sources(g, n) \subseteq done}
<1>1. PICK n \in Nodes(g) \ done : Sources(g, n) \cap (Nodes(g) \ done) = {}
  BY DEF Accepts, Acyclic
<1>2. Sources(g, n) \subseteq Nodes(g) BY DEF Accepts, Closed
<1>3. ready # {} /\ ready \in SUBSET Nat BY <1>1, <1>2, NodeAssumption
<1>4. \E k \in ready : \A m \in ready : k <= m
  <2> HIDE DEF ready
  <2> QED BY <1>3, LeastId
<1>5. FirstReady(g, done) = CHOOSE k \in ready : \A m \in ready : k <= m
  BY DEF FirstReady
<1>6. FirstReady(g, done) \in ready
  <2> HIDE DEF ready
  <2> QED BY <1>4, <1>5
<1> QED BY <1>6

\* A request is taken or refused.
LEMMA StartKeeps ==
  ASSUME Shape, NEW r \in Runs, RunInv(r), NEW q \in Requests, Start(r, q)
  PROVE  RunInv(r)'
<1>1. q # None /\ request'[r] = q /\ UNCHANGED <<popped, cur, bound, status, result, hash>>
  BY RequestsAssumption DEF Start, Shape
<1>2. stage[r] = "idle" /\ popped[r] = {} /\ only[r] = {} BY DEF Start, RunInv, Asked, Lively
<1>3. DOMAIN status[r] = {} BY <1>2 DEF RunInv, InHand, AtNode
<1>4. \/ Accepts(q) /\ only'[r] = InScope(q) /\ stage'[r] = "next"
      \/ only'[r] = only[r] /\ stage'[r] = "rejected"
  BY DEF Start, Goto, Shape
<1>5. Done(r)' = {} /\ Done(r) = {} BY <1>1, <1>3 DEF Done
<1>6. Asked(r)' BY <1>1, <1>2, <1>4 DEF Asked, Lively
<1>7. Ordered(r)' BY <1>1, <1>2, <1>4 DEF Ordered
<1>8. InHand(r)' BY <1>1, <1>2, <1>3, <1>4 DEF InHand, AtNode
<1>9. Settled(r)' BY <1>1, <1>3, <1>5 DEF RunInv, Settled
<1>10. Bindings(r)' BY <1>4 DEF Bindings, AtNode
<1>11. Fresh(r)' BY <1>1, <1>3 DEF Fresh
<1>12. Alone(r)' BY <1>5 DEF Alone
<1>13. Caused(r)' BY <1>1, <1>3 DEF Caused
<1> QED BY <1>6, <1>7, <1>8, <1>9, <1>10, <1>11, <1>12, <1>13 DEF RunInv

\* The order goes on to a node whose sources it has passed.
LEMMA AdvanceKeeps ==
  ASSUME Shape, NEW r \in Runs, RunInv(r), Advance(r)
  PROVE  RunInv(r)'
<1> DEFINE g == GraphOf(r)
           n == FirstReady(g, popped[r])
<1>1. Lively(r) /\ ~AtNode(r) /\ stage[r] = "next" BY DEF Advance, Lively, AtNode
<1>2. /\ request[r] \in Request /\ Accepts(request[r]) /\ Nodes(g) \subseteq NodeIds
      /\ popped[r] \subseteq Nodes(g) /\ popped[r] # Nodes(g)
  BY <1>1, InGraph DEF RunInv, Ordered, Advance
<1>3. n \in Nodes(g) \ popped[r] /\ Sources(g, n) \subseteq popped[r]
  BY <1>2, NextNode DEF GraphOf
<1>4. /\ popped'[r] = popped[r] \cup {n}
      /\ UNCHANGED <<request, only, status, result, hash>>
      /\ \/ n \in only[r] /\ cur'[r] = n /\ bound'[r] = <<>> /\ stage'[r] = "bind"
         \/ n \notin only[r] /\ UNCHANGED <<cur, bound, stage>>
  BY DEF Advance, Shape, Goto, walk
<1>5. Done(r)' = Done(r) /\ GraphOf(r)' = GraphOf(r) /\ StandsAlone(r)' = StandsAlone(r) /\ Lively(r)'
  BY <1>1, <1>4 DEF Done, GraphOf, StandsAlone, Lively
<1>6. Asked(r)' BY <1>1, <1>4, <1>5 DEF RunInv, Asked, Lively
<1>7. Ordered(r)' BY <1>1, <1>3, <1>4, <1>5 DEF RunInv, Ordered
<1>8. only[r] \cap popped[r] = DOMAIN status[r] BY <1>1 DEF RunInv, InHand
<1>9. InHand(r)' BY <1>1, <1>3, <1>4, <1>5, <1>8 DEF InHand, AtNode
<1>10. Settled(r)' BY <1>4, <1>5 DEF RunInv, Settled
<1>11. Bindings(r)'
  <2>1. CASE n \in only[r]
    <3>1. bound'[r] = <<>> /\ stage'[r] = "bind" BY <1>4, <2>1
    <3>2. <<>> \in Seq({}) /\ Len(<<>>) = 0 OBVIOUS
    <3>3. AtNode(r)' /\ cur'[r] \in NodeIds /\ request'[r] = request[r]
      BY <1>2, <1>3, <1>4, <2>1, <3>1 DEF AtNode
    <3>4. Feeds(r)' \in Seq(Feed)
      <4>1. request[r].graph.feeds \in [NodeIds -> Seq(Feed)] BY <1>2 DEF Request, Graph
      <4> QED BY <3>3, <4>1 DEF Feeds, GraphOf
    <3> QED BY <3>1, <3>2, <3>4 DEF Bindings
  <2>2. CASE n \notin only[r] BY <1>1, <1>4, <2>2 DEF Bindings, AtNode
  <2> QED BY <2>1, <2>2
<1>12. Fresh(r)' BY <1>4, <1>5 DEF RunInv, Fresh
<1>13. Alone(r)' BY <1>4, <1>5 DEF RunInv, Alone
<1>14. Caused(r)' BY <1>4, <1>5 DEF RunInv, Caused
<1> QED BY <1>6, <1>7, <1>9, <1>10, <1>11, <1>12, <1>13, <1>14 DEF RunInv

\* What feeds the node in hand has been walked when the scope holds its ancestors.
LEMMA SourcesWalked ==
  ASSUME Shape, NEW r \in Runs, RunInv(r), AtNode(r), StandsAlone(r),
         NEW m \in Sources(GraphOf(r), cur[r])
  PROVE  m \in DOMAIN status[r]
<1> DEFINE g == GraphOf(r)
           c == cur[r]
<1>0. Lively(r) BY DEF AtNode, Lively
<1>1. request[r] \in Request /\ Accepts(request[r]) /\ c \in Nodes(g) BY <1>0, InGraph
<1>2. c \in only[r] \cap popped[r] BY DEF RunInv, InHand
<1>3. m \in popped[r] BY <1>0, <1>2 DEF RunInv, Ordered
<1>4. m \in only[r] BY <1>0, <1>1, <1>2, ScopeFacts DEF RunInv, Asked, StandsAlone, GraphOf
<1>5. m # c
  <2>1. {c} \in SUBSET Nodes(g) /\ {c} # {} BY <1>1
  <2>2. \E k \in {c} : Sources(g, k) \cap {c} = {} BY <1>1, <2>1 DEF Accepts, Acyclic, GraphOf
  <2> QED BY <2>2
<1> QED BY <1>3, <1>4, <1>5 DEF RunInv, InHand

\* One more source is bound, or the node is skipped.
LEMMA BindKeeps ==
  ASSUME Shape, NEW r \in Runs, RunInv(r), Bind(r)
  PROVE  RunInv(r)'
<1> DEFINE k == Len(bound[r]) + 1
           f == Feeds(r)[k]
           v == Resolve(r, f)
           b == [port |-> f.port, of |-> v, out |-> f.out,
                 key |-> IF f.src \in DOMAIN hash[r] THEN hash[r][f.src] ELSE None]
<1>1. AtNode(r) /\ Lively(r) /\ stage[r] = "bind" BY DEF Bind, AtNode, Lively
<1>2. Feeds(r) \in Seq(Feed) BY <1>1, InGraph
<1>3. PICK S : bound[r] \in Seq(S) BY <1>1 DEF RunInv, Bindings
<1>4. Len(bound[r]) \in Nat /\ k \in 1..Len(Feeds(r)) BY <1>2, <1>3 DEF Bind
<1>5. k \in DOMAIN Feeds(r) /\ f.src \in Sources(GraphOf(r), cur[r])
  BY <1>2, <1>4 DEF Sources, Feeds
<1>7. f.src \in Done(r) => v = result[r][f.src] BY DEF Resolve
<1>6. CASE LacksPort(r, f)
  <2>1. stage'[r] = "broken"
        /\ UNCHANGED <<request, only, popped, cur, bound, status, result, hash>>
    BY <1>6 DEF Bind, walk, Goto, Shape
  <2> QED BY <1>1, <2>1, MoveKeeps
<1>8. CASE ~LacksPort(r, f) /\ HasValue(r, f)
  <2>1. /\ bound' = [bound EXCEPT ![r] = Append(@, b)]
        /\ UNCHANGED <<stage, status, request, only, popped, cur, result, hash>>
    BY <1>8 DEF Bind, walk
  <2>2. bound'[r] = Append(bound[r], b) BY <2>1 DEF Shape
  <2>3. bound[r] \in Seq(S \cup {b}) BY <1>3
  <2>4. /\ bound'[r] \in Seq(S \cup {b}) /\ Len(bound'[r]) = k /\ bound'[r][k] = b
        /\ \A i \in 1..Len(bound[r]) : bound'[r][i] = bound[r][i]
    <3>1. b \in S \cup {b} OBVIOUS
    <3> HIDE DEF b
    <3> QED BY <2>2, <2>3, <3>1
  <2>5. Feeds(r)' = Feeds(r) /\ Done(r)' = Done(r) /\ StandsAlone(r)' = StandsAlone(r)
        /\ GraphOf(r)' = GraphOf(r) /\ AtNode(r)' /\ Lively(r)'
    <3>1. GraphOf(r)' = GraphOf(r) /\ StandsAlone(r)' = StandsAlone(r)
      BY <2>1 DEF GraphOf, StandsAlone
    <3>2. Feeds(r)' = Feeds(r) /\ Done(r)' = Done(r)
      BY <2>1, <3>1 DEF Feeds, Done
    <3>3. AtNode(r)' /\ Lively(r)'
      BY <1>1, <2>1 DEF AtNode, Lively
    <3> QED BY <3>1, <3>2, <3>3
  <2>6. ASSUME NEW i \in 1..Len(bound[r]) PROVE BoundAt(r, i)'
    <3>1. BoundAt(r, i)
      BY <1>1 DEF RunInv, Bindings
    <3>2. /\ bound'[r][i] = bound[r][i] /\ Feeds(r)'[i] = Feeds(r)[i]
          /\ UNCHANGED <<hash, result>>
      BY <2>1, <2>4, <2>5
    <3> QED
      BY <2>5, <3>1, <3>2 DEF BoundAt
  <2>7. ASSUME NEW i, i = k PROVE BoundAt(r, i)'
    <3>1. b.key # None => f.src \in Done(r) \cap DOMAIN hash[r] /\ b.key = hash[r][f.src]
      BY DEF RunInv, Settled
    <3>2. StandsAlone(r) => f.src \in Done(r)
      BY <1>1, <1>5, <1>8, SourcesWalked DEF HasValue
    <3>3. bound'[r][i] = b BY <2>4, <2>7
    <3>4. b = [port |-> f.port, of |-> b.of, out |-> f.out, key |-> b.key] /\ b.of = v
      OBVIOUS
    <3>5. Feeds(r)'[i] = f BY <2>5, <2>7
    <3> HIDE DEF b, f, v
    <3> QED BY <2>1, <2>5, <3>1, <3>2, <3>3, <3>4, <3>5, <1>7 DEF BoundAt
  <2>8. \A i \in 1..k : i \in 1..Len(bound[r]) \/ i = k BY <1>4
  <2>9. Bindings(r)'
    <3>1. \A i \in 1..k : BoundAt(r, i)' BY <2>6, <2>7, <2>8
    <3>2. Len(bound'[r]) = k /\ k <= Len(Feeds(r)') /\ stage'[r] = "bind" BY <1>1, <1>4, <2>1, <2>4, <2>5
    <3> HIDE DEF k
    <3> QED BY <2>4, <3>1, <3>2 DEF Bindings
  <2>10. Asked(r)' /\ Ordered(r)' /\ InHand(r)' /\ Settled(r)'
    BY <2>1, <2>5 DEF RunInv, Asked, Ordered, InHand, Settled, Lively, AtNode
  <2>11. Fresh(r)' BY <2>1, <2>5 DEF RunInv, Fresh
  <2>12. Alone(r)' BY <2>1, <2>5 DEF RunInv, Alone
  <2>13. Caused(r)' BY <2>1, <2>5 DEF RunInv, Caused
  <2> QED BY <2>9, <2>10, <2>11, <2>12, <2>13 DEF RunInv
<1>9. CASE ~LacksPort(r, f) /\ ~HasValue(r, f)
  <2>1. /\ status' = [status EXCEPT ![r] = Put(@, cur[r], "skipped")] /\ stage'[r] = "next"
        /\ UNCHANGED <<request, only, popped, cur, bound, result, hash>>
    BY <1>9 DEF Bind, walk, Goto, Shape
  <2>2. ASSUME StandsAlone(r)
        PROVE  \E m \in Sources(GraphOf(r), cur[r]) \cap DOMAIN status[r] :
                 status[r][m] \in {"error", "skipped"}
    <3>1. f.src \in DOMAIN status[r] BY <1>1, <1>5, <2>2, SourcesWalked
    <3>2. f.src \notin Done(r) BY <1>9 DEF HasValue
    <3> QED BY <1>5, <3>1, <3>2 DEF Done, RunInv, Settled
  <2> QED BY <1>1, <2>1, <2>2, FailKeeps
<1> QED BY <1>6, <1>8, <1>9

\* The cache is asked; what it holds is what the node would compute.
LEMMA LookupKeeps ==
  ASSUME Shape, KeysTellPorts => \E made : Books(made), NEW r \in Runs, RunInv(r), Lookup(r)
  PROVE  RunInv(r)'
<1> DEFINE h == NodeHash(Config(r), bound[r])
<1>1. /\ AtNode(r) /\ Lively(r) /\ Len(bound[r]) = Len(Feeds(r))
      /\ UNCHANGED <<request, only, popped, cur, bound>>
  BY DEF Lookup, AtNode, Lively, walk
<1>2. CASE h # None /\ h \in DOMAIN cache
  <2>1. Settle(r, "cached", cache[h], h) /\ stage'[r] = "save" BY <1>2 DEF Lookup, Goto, Shape
  <2>2. ASSUME KeysTellPorts
        PROVE  /\ cache[h] = Term(Config(r), Inputs(bound[r]), None)
               /\ \A i \in 1..Len(Feeds(r)) : Feeds(r)[i].src \in Done(r)
    BY <1>1, <1>2, <2>2, HitIsOutput
  <2>3. DOMAIN Feeds(r) = 1..Len(Feeds(r))
    <3>1. Feeds(r) \in Seq(Feed) BY <1>1, InGraph
    <3> QED BY <3>1
  <2>4. ASSUME KeysTellPorts
        PROVE  /\ Sources(GraphOf(r), cur[r]) \subseteq Done(r)
               /\ cache[h] = Term(Config(r), [i \in DOMAIN Feeds(r) |->
                    [port |-> Feeds(r)[i].port, of |-> result[r][Feeds(r)[i].src],
                     out |-> Feeds(r)[i].out]], None)
    BY <1>1, <2>2, <2>4, InputsAreResults
  <2>5. KeysTellPorts /\ StandsAlone(r) => \A i \in DOMAIN cache[h].feeds :
          Feeds(r)[i].src \in Done(r) /\ cache[h].feeds[i].of = result[r][Feeds(r)[i].src]
    BY <2>2, <2>3, <2>4 DEF Term
  <2> HIDE DEF h
  <2> QED BY <1>1, <1>2, <2>1, <2>4, <2>5, SettleKeeps
<1>3. CASE ~(h # None /\ h \in DOMAIN cache)
  <2>1. stage'[r] = "execute" /\ UNCHANGED <<status, result, hash>>
    BY <1>3 DEF Lookup, Goto, Shape
  <2> QED BY <1>1, <2>1, MoveKeeps
<1> QED BY <1>2, <1>3

\* The node computes its outputs.
LEMMA ExecuteKeeps ==
  ASSUME Shape, NEW r \in Runs, RunInv(r), Execute(r)
  PROVE  RunInv(r)'
<1> DEFINE h == NodeHash(Config(r), bound[r])
           v == Output(r, Config(r), bound[r])
<1>1. /\ AtNode(r) /\ Lively(r)
      /\ UNCHANGED <<request, only, popped, cur, bound>>
      /\ Settle(r, "ok", v, h) /\ stage'[r] \in {"put", "save"} /\ (stage'[r] = "put" => h # None)
  BY DEF Execute, AtNode, Lively, walk, Goto, Shape
<1>2. Len(bound[r]) = Len(Feeds(r)) BY <1>1 DEF Execute, RunInv, Bindings
<1>3. KeysTellPorts /\ StandsAlone(r) => \A i \in DOMAIN v.feeds :
        Feeds(r)[i].src \in Done(r) /\ v.feeds[i].of = result[r][Feeds(r)[i].src]
  <2>1. v.feeds = Inputs(bound[r]) BY DEF Output, Term
  <2>2. ASSUME StandsAlone(r), NEW i \in DOMAIN Inputs(bound[r])
        PROVE  /\ Feeds(r)[i].src \in Done(r)
               /\ Inputs(bound[r])[i].of = result[r][Feeds(r)[i].src]
    <3>1. /\ Feeds(r)[i].src \in Done(r)
          /\ Inputs(bound[r])[i] = [port |-> Feeds(r)[i].port, out |-> Feeds(r)[i].out,
                                    of |-> result[r][Feeds(r)[i].src]]
      BY <1>1, <1>2, <2>2, InputsOfThisRun
    <3> QED BY <3>1
  <2> QED BY <2>1, <2>2
<1> HIDE DEF h, v
<1> QED BY <1>1, <1>3, SettleKeeps

\* The node raises.
LEMMA RaiseKeeps ==
  ASSUME Shape, NEW r \in Runs, RunInv(r), Raise(r)
  PROVE  RunInv(r)'
<1>1. /\ AtNode(r) /\ stage'[r] = "next" /\ hash'[r] = Put(hash[r], cur[r], None)
      /\ status' = [status EXCEPT ![r] = Put(@, cur[r], "error")]
      /\ UNCHANGED <<request, only, popped, cur, bound, result>>
  BY DEF Raise, AtNode, walk, Goto, Shape
<1> QED BY <1>1, FailKeeps

\* The thread of r steps.
LEMMA StepKeeps ==
  ASSUME Shape, KeysTellPorts => \E made : Books(made), NEW r \in Runs, RunInv(r), Step(r)
  PROVE  RunInv(r)'
<1>1. CASE Finish(r)
  <2>1. stage'[r] = "done" /\ popped[r] = Nodes(GraphOf(r)) /\ ~AtNode(r) /\ Lively(r)
        /\ UNCHANGED <<request, only, popped, cur, bound, status, result, hash>>
    BY <1>1 DEF Finish, Goto, Shape, walk, AtNode, Lively
  <2> QED BY <2>1, MoveKeeps
<1>2. CASE CachePut(r)
  <2>1. stage'[r] = "save" /\ stage[r] = "put" /\ ~AtNode(r) /\ Lively(r)
        /\ UNCHANGED <<request, only, popped, cur, bound, status, result, hash>>
    BY <1>2 DEF CachePut, Goto, Shape, walk, AtNode, Lively
  <2> QED BY <2>1, MoveKeeps
<1>3. CASE SaveArtifact(r)
  <2>1. stage'[r] = "next" /\ ~AtNode(r) /\ Lively(r)
        /\ UNCHANGED <<request, only, popped, cur, bound, status, result, hash>>
    BY <1>3 DEF SaveArtifact, Goto, Shape, walk, AtNode, Lively
  <2> QED BY <2>1, MoveKeeps
<1> QED BY <1>1, <1>2, <1>3, AdvanceKeeps, BindKeeps, LookupKeeps, ExecuteKeeps, RaiseKeeps DEF Step

\* Only the thread that steps writes its own part.
LEMMA OthersUntouched ==
  ASSUME Shape, NEW r \in Runs, NEW k \in Runs, k # r,
         Step(r) \/ \E q \in Requests : Start(r, q)
  PROVE  /\ stage'[k] = stage[k] /\ request'[k] = request[k] /\ only'[k] = only[k]
         /\ popped'[k] = popped[k] /\ cur'[k] = cur[k] /\ bound'[k] = bound[k]
         /\ status'[k] = status[k] /\ result'[k] = result[k] /\ hash'[k] = hash[k]
<1> USE DEF Shape, walk, Goto, Settle
<1>1. CASE \E q \in Requests : Start(r, q) BY <1>1 DEF Start
<1>2. CASE Advance(r) BY <1>2 DEF Advance
<1>3. CASE Finish(r) \/ CachePut(r) \/ SaveArtifact(r)
  BY <1>3 DEF Finish, CachePut, SaveArtifact
<1>4. CASE Bind(r) BY <1>4 DEF Bind
<1>5. CASE Lookup(r) BY <1>5 DEF Lookup
<1>6. CASE Execute(r) BY <1>6 DEF Execute
<1>7. CASE Raise(r) BY <1>7 DEF Raise
<1> QED BY <1>1, <1>2, <1>3, <1>4, <1>5, <1>6, <1>7 DEF Step

\* Every step keeps the shape of the variables.
LEMMA NextShape == IInv /\ [Next]_vars => Shape'
<1> SUFFICES ASSUME IInv, [Next]_vars PROVE Shape'
  OBVIOUS
<1> USE DEF Shape, walk, Goto, Settle
<1>0. Shape BY DEF IInv
<1>1. CASE UNCHANGED vars BY <1>0, <1>1 DEF vars
<1>2. CASE Clear BY <1>0, <1>2 DEF Clear
<1>3. ASSUME NEW r \in Runs, NEW q \in Requests, Start(r, q) PROVE Shape'
  <2>1. Accepts(q) => InScope(q) \subseteq NodeIds
    <3>1. q \in Request BY RequestsAssumption
    <3>2. Nodes(q.graph) \subseteq NodeIds BY <3>1 DEF Request, Graph, Nodes
    <3> QED BY <3>1, <3>2, ScopeFacts
  <2>2. CASE Accepts(q) BY <1>0, <1>3, <2>1, <2>2 DEF Start
  <2>3. CASE ~Accepts(q) BY <1>0, <1>3, <2>3 DEF Start
  <2> QED BY <2>2, <2>3
<1>4. ASSUME NEW r \in Runs, Step(r) PROVE Shape'
  <2>0. RunInv(r) BY DEF IInv
  <2>1. CASE Advance(r)
    <3>1. /\ request[r] \in Request /\ Accepts(request[r]) /\ Nodes(GraphOf(r)) \subseteq NodeIds
      BY <1>0, <2>0, <2>1, InGraph DEF Advance, Lively
    <3>2. popped[r] \in SUBSET Nodes(GraphOf(r)) BY <2>0, <2>1 DEF RunInv, Ordered, Lively, Advance
    <3>3. FirstReady(GraphOf(r), popped[r]) \in NodeIds
      BY <2>1, <3>1, <3>2, NextNode DEF Advance, GraphOf
    <3> DEFINE n == FirstReady(GraphOf(r), popped[r])
    <3>4. /\ popped' = [popped EXCEPT ![r] = @ \cup {n}]
          /\ \/ /\ cur' = [cur EXCEPT ![r] = n] /\ bound' = [bound EXCEPT ![r] = <<>>]
                /\ stage' = [stage EXCEPT ![r] = "bind"]
             \/ UNCHANGED <<cur, bound, stage>>
          /\ UNCHANGED <<artifacts, request, only, status, result, hash>>
      BY <2>1 DEF Advance
    <3> HIDE DEF n
    <3> QED BY <1>0, <3>3, <3>4 DEF n
  <2>2. CASE Finish(r) \/ CachePut(r) BY <1>0, <2>2 DEF Finish, CachePut
  <2>3. CASE SaveArtifact(r)
    <3>1. cur[r] \in NodeIds
      <4>1. cur[r] \in DOMAIN status[r] BY <2>0, <2>3 DEF RunInv, InHand, SaveArtifact, Done
      <4>2. cur[r] \in only[r] BY <2>0, <4>1 DEF RunInv, InHand
      <4> QED BY <1>0, <4>2
    <3>2. DOMAIN artifacts' \subseteq DOMAIN artifacts \cup {cur[r]}
      <4> DEFINE put == Put(artifacts, cur[r], result[r][cur[r]])
      <4>1. DOMAIN put = DOMAIN artifacts \cup {cur[r]} BY DEF Put
      <4>2. \/ \E S \in SUBSET (DOMAIN artifacts \cup {cur[r]}) : artifacts' = Drop(put, S)
            \/ artifacts' \in {Drop(artifacts, {cur[r]}), artifacts}
        BY <2>3 DEF SaveArtifact, Outcomes
      <4> HIDE DEF put
      <4>3. CASE \E S \in SUBSET (DOMAIN artifacts \cup {cur[r]}) : artifacts' = Drop(put, S)
        <5>1. PICK S : artifacts' = Drop(put, S) BY <4>3
        <5>2. DOMAIN artifacts' = DOMAIN put \ S BY <5>1 DEF Drop
        <5> QED BY <4>1, <5>2
      <4>4. CASE artifacts' \in {Drop(artifacts, {cur[r]}), artifacts} BY <4>4 DEF Drop
      <4> QED BY <4>2, <4>3, <4>4
    <3> QED BY <1>0, <2>3, <3>1, <3>2 DEF SaveArtifact
  <2>4. CASE Bind(r) BY <1>0, <2>4 DEF Bind
  <2>5. CASE Lookup(r) BY <1>0, <2>5 DEF Lookup
  <2>6. CASE Execute(r) BY <1>0, <2>6 DEF Execute
  <2>7. CASE Raise(r) BY <1>0, <2>7 DEF Raise
  <2> QED BY <1>4, <2>1, <2>2, <2>3, <2>4, <2>5, <2>6, <2>7 DEF Step
<1> QED BY <1>1, <1>2, <1>3, <1>4 DEF Next

\* A node that settles with a pair in the books leaves them true.
LEMMA SettleBooked ==
  ASSUME Shape, NEW r \in Runs, RunInv(r), AtNode(r), NEW made, Booked(made),
         NEW more, made \subseteq more,
         NEW st, NEW v, NEW h, Settle(r, st, v, h), h # None => <<<<request[r], cur[r]>>, h, v>> \in more,
         UNCHANGED <<cache, request>>
  PROVE  Booked(more)'
<1> DEFINE c == cur[r]
<1>1. /\ hash' = [hash EXCEPT ![r] = Put(hash[r], c, h)]
      /\ result' = [result EXCEPT ![r] = Put(result[r], c, v)]
  BY DEF Settle
<1>2. c \notin DOMAIN hash[r] BY DEF RunInv, InHand, Settled
<1>3. ASSUME NEW s \in Runs, NEW n \in DOMAIN hash'[s], hash'[s][n] # None
      PROVE  <<<<request[s], n>>, hash'[s][n], result'[s][n]>> \in more
  <2>1. CASE s # r
    <3>1. hash'[s] = hash[s] /\ result'[s] = result[s] BY <1>1, <2>1 DEF Shape
    <3> QED BY <1>3, <3>1 DEF Booked
  <2>2. CASE s = r /\ n # c
    <3>1. n \in DOMAIN hash[r] /\ hash'[r][n] = hash[r][n] BY <1>1, <1>3, <2>2 DEF Shape, Put
    <3>2. n \in DOMAIN result[r] BY <1>3, <2>2, <3>1 DEF RunInv, Settled
    <3>3. result'[r][n] = result[r][n] BY <1>1, <2>2, <3>2 DEF Shape, Put
    <3> QED BY <1>3, <2>2, <3>1, <3>3 DEF Booked
  <2>3. CASE s = r /\ n = c
    <3>1. hash'[r][c] = h /\ result'[r][c] = v BY <1>1 DEF Shape, Put
    <3> QED BY <1>3, <2>3, <3>1
  <2> QED BY <2>1, <2>2, <2>3
<1> QED BY <1>3 DEF Booked

\* What a node settles with is entered in the books.
LEMMA BooksTake ==
  ASSUME Shape, KeysTellPorts, NEW made, Books(made), NEW r \in Runs, RunInv(r), AtNode(r),
         Len(bound[r]) = Len(Feeds(r)), UNCHANGED <<cache, request>>,
         NEW st, NEW v, Settle(r, st, v, NodeHash(Config(r), bound[r])),
         NodeHash(Config(r), bound[r]) # None => v = Term(Config(r), Inputs(bound[r]), None)
  PROVE  \E more : Books(more)'
<1> DEFINE h == NodeHash(Config(r), bound[r])
           p == <<request[r], cur[r]>>
<1>1. Grounded(made) /\ Unique(made) /\ Booked(made) BY DEF Books
<1>2. \E more : /\ made \subseteq more /\ Grounded(more) /\ Unique(more)
                /\ h # None => <<p, h, v>> \in more
  <2>1. CASE h = None BY <1>1, <2>1
  <2>2. CASE h # None
    <3>1. h = Term(Config(r), Tagged(bound[r]), None) /\ MadeFrom(made, p, bound[r])
      BY <2>2, KeyIsMade
    <3>2. CfgAt(p) = Config(r) BY DEF CfgAt, Config, GraphOf
    <3>3. v = Term(Config(r), Inputs(bound[r]), None) BY <2>2
    <3>4. Entry(p, bound[r]) = <<p, h, v>> BY <3>1, <3>2, <3>3 DEF Entry
    <3> HIDE DEF h, p
    <3> QED BY <1>1, <3>1, <3>4, BooksGrow
  <2> QED BY <2>1, <2>2
<1>3. PICK more : /\ made \subseteq more /\ Grounded(more) /\ Unique(more)
                  /\ h # None => <<p, h, v>> \in more
  BY <1>2
<1> HIDE DEF h
<1>4. Booked(more)' BY <1>1, <1>3, SettleBooked DEF h
<1> QED BY <1>3, <1>4 DEF Books, Grounded, Unique

\* A run that starts holds nothing under a key yet.
LEMMA StartBooked ==
  ASSUME Shape, NEW r \in Runs, RunInv(r), NEW q \in Requests, Start(r, q),
         NEW made, Booked(made)
  PROVE  Booked(made)'
<1>1. UNCHANGED <<cache, hash, result>> /\ stage[r] = "idle" BY DEF Start
<1>2. DOMAIN hash[r] = {} BY <1>1 DEF RunInv, Asked, InHand, Settled, Lively, AtNode
<1>3. \A s \in Runs : s # r => request'[s] = request[s] BY DEF Start, Shape
<1> QED BY <1>1, <1>2, <1>3 DEF Booked

\* The books are kept: an output that is computed or found is entered, and all
\* else only takes from them.
LEMMA BooksKept == IInv /\ KeysTellPorts /\ [Next]_vars => \E made : Books(made)'
<1> SUFFICES ASSUME IInv, KeysTellPorts, [Next]_vars PROVE \E made : Books(made)'
  OBVIOUS
<1>0. PICK made : Books(made) BY DEF IInv
<1>1. Shape /\ Grounded(made) /\ Unique(made) /\ Booked(made) BY <1>0 DEF IInv, Books
<1>2. ASSUME NEW r \in Runs, Execute(r) PROVE \E more : Books(more)'
  <2> DEFINE v == Output(r, Config(r), bound[r])
  <2>1. /\ RunInv(r) /\ AtNode(r) /\ Len(bound[r]) = Len(Feeds(r))
        /\ UNCHANGED <<cache, request>> /\ Settle(r, "ok", v, NodeHash(Config(r), bound[r]))
    BY <1>2 DEF IInv, RunInv, Bindings, Execute, AtNode, walk
  <2>2. NodeHash(Config(r), bound[r]) # None => v = Term(Config(r), Inputs(bound[r]), None)
    BY DEF NodeHash, Output
  <2> HIDE DEF v
  <2> QED BY <1>0, <1>1, <2>1, <2>2, BooksTake
<1>3. ASSUME NEW r \in Runs, Lookup(r), ~(hash' = hash /\ result' = result)
      PROVE  \E more : Books(more)'
  <2> DEFINE h == NodeHash(Config(r), bound[r])
  <2>1. /\ RunInv(r) /\ AtNode(r) /\ Len(bound[r]) = Len(Feeds(r)) /\ UNCHANGED <<cache, request>>
        /\ h # None /\ h \in DOMAIN cache /\ Settle(r, "cached", cache[h], h)
    BY <1>3 DEF IInv, Lookup, AtNode, walk
  <2>2. cache[h] = Term(Config(r), Inputs(bound[r]), None) BY <1>0, <1>1, <2>1, HitIsOutput
  <2> QED BY <1>0, <1>1, <2>1, <2>2, BooksTake
<1>4. ASSUME NEW r \in Runs, Raise(r) PROVE Books(made)'
  <2>1. /\ cache' = cache /\ result' = result /\ request' = request
        /\ hash' = [hash EXCEPT ![r] = Put(@, cur[r], None)]
    BY <1>4 DEF Raise, walk
  <2>2. \A s \in Runs : \A n \in DOMAIN hash'[s] :
          hash'[s][n] # None => n \in DOMAIN hash[s] /\ hash'[s][n] = hash[s][n]
    BY <1>1, <2>1 DEF Shape, Put
  <2>3. Booked(made)' BY <1>1, <2>1, <2>2 DEF Booked
  <2> QED BY <1>1, <2>3 DEF Books, Grounded, Unique
<1>5. ASSUME NEW r \in Runs, CachePut(r) PROVE Books(made)'
  <2> DEFINE h == hash[r][cur[r]]
             v == result[r][cur[r]]
             put == Put(cache, h, v)
  <2>1. <<<<request[r], cur[r]>>, h, v>> \in made
    BY <1>1, <1>5 DEF IInv, RunInv, InHand, CachePut, Booked
  <2>2. \A k \in DOMAIN put : \E p : <<p, k, put[k]>> \in made BY <1>1, <2>1 DEF Put, Booked
  <2>3. cache' \in {Drop(put, S) : S \in SUBSET (DOMAIN cache \cup {h})} \cup {Drop(cache, {h}), cache}
    BY <1>5 DEF CachePut, Outcomes
  <2>4. \A k \in DOMAIN cache' : \E p : <<p, k, cache'[k]>> \in made
    <3>1. CASE cache' \in {Drop(put, S) : S \in SUBSET (DOMAIN cache \cup {h})}
      <4> HIDE DEF put
      <4> QED BY <2>2, <3>1 DEF Drop
    <3>2. CASE cache' \in {Drop(cache, {h}), cache} BY <1>1, <3>2 DEF Drop, Booked
    <3> QED BY <2>3, <3>1, <3>2
  <2>5. UNCHANGED <<request, hash, result>> BY <1>5 DEF CachePut, walk
  <2> QED BY <1>1, <2>4, <2>5 DEF Books, Grounded, Unique, Booked
<1>6. CASE cache' \in {cache, NoEntries} /\ UNCHANGED <<request, hash, result>>
  <2>1. Booked(made)' BY <1>1, <1>6 DEF Booked, NoEntries
  <2> QED BY <1>1, <2>1 DEF Books, Grounded, Unique
<1>7. CASE \E r \in Runs : Lookup(r) /\ hash' = hash /\ result' = result
  BY <1>6, <1>7 DEF Lookup, walk
<1>8. CASE \E r \in Runs : \E q \in Requests : Start(r, q)
  <2>1. Booked(made)' BY <1>1, <1>8, StartBooked DEF IInv
  <2> QED BY <1>1, <2>1 DEF Books, Grounded, Unique
<1> QED BY <1>2, <1>3, <1>4, <1>5, <1>6, <1>7, <1>8 DEF Next, Step, Advance, Finish, Bind,
        SaveArtifact, Clear, vars, walk

\* At first nothing has been asked.
LEMMA InitIInv == Init => IInv
<1> SUFFICES ASSUME Init PROVE IInv
  OBVIOUS
<1>1. Shape BY DEF Init, Shape, NoEntries
<1>2. Books({}) BY DEF Init, Books, Grounded, Unique, Booked, NoEntries
<1>3. ASSUME NEW r \in Runs PROVE RunInv(r)
  <2>1. /\ stage[r] = "idle" /\ request[r] = None /\ only[r] = {} /\ popped[r] = {}
        /\ DOMAIN status[r] = {} /\ DOMAIN result[r] = {} /\ DOMAIN hash[r] = {}
    BY DEF Init, NoEntries
  <2>2. Done(r) = {} BY <2>1 DEF Done
  <2> QED BY <2>1, <2>2 DEF RunInv, Asked, Ordered, InHand, Settled, Bindings, Fresh, Alone,
          Caused, Lively, AtNode
<1> QED BY <1>1, <1>2, <1>3 DEF IInv

\* The invariant is inductive.
LEMMA NextIInv == IInv /\ [Next]_vars => IInv'
<1> SUFFICES ASSUME IInv, [Next]_vars PROVE IInv'
  OBVIOUS
<1>1. Shape' /\ (KeysTellPorts => \E made : Books(made)') BY NextShape, BooksKept
<1>2. ASSUME NEW k \in Runs PROVE RunInv(k)'
  <2>0. Shape /\ RunInv(k) /\ (KeysTellPorts => \E made : Books(made)) BY DEF IInv
  <2>1. CASE UNCHANGED vars \/ Clear BY <2>0, <2>1, OtherRuns DEF vars, Clear, walk
  <2>2. CASE Step(k) BY <2>0, <2>2, StepKeeps
  <2>3. CASE \E q \in Requests : Start(k, q) BY <2>0, <2>3, StartKeeps
  <2>4. CASE \E r \in Runs \ {k} : Step(r) \/ \E q \in Requests : Start(r, q)
    BY <2>0, <2>4, OthersUntouched, OtherRuns
  <2> QED BY <2>1, <2>2, <2>3, <2>4 DEF Next
<1> QED BY <1>1, <1>2 DEF IInv

\* Each run is at one node of its scope, and reports on the nodes it has passed.
THEOREM TypeCorrect == Spec => []TypeOK
<1>1. IInv => TypeOK
  <2> SUFFICES ASSUME IInv PROVE TypeOK
    OBVIOUS
  <2>1. Shape BY DEF IInv
  <2>2. ASSUME NEW r \in Runs
        PROVE  /\ stage[r] # "idle" => request[r] \in Requests
               /\ stage[r] \in {"bind", "execute", "put", "save"} => cur[r] \in only[r] \cap popped[r]
               /\ stage[r] \in {"bind", "execute"} => Len(bound[r]) <= Len(Feeds(r))
               /\ only[r] \cap popped[r] =
                    DOMAIN status[r] \cup (IF stage[r] \in {"bind", "execute", "broken"} THEN {cur[r]} ELSE {})
               /\ DOMAIN result[r] = Done(r) /\ DOMAIN hash[r] \subseteq DOMAIN status[r]
    <3>1. RunInv(r) BY DEF IInv
    <3> QED BY <2>1, <3>1 DEF Shape, RunInv, Asked, InHand, Settled, Bindings, AtNode, Done
  <2> QED BY <2>1, <2>2 DEF TypeOK, Shape
<1> QED BY <1>1, InitIInv, NextIInv, PTL DEF Spec

\* Where nodes of one key read the same OUT ports, equal hashes are equal outputs, in
\* whatever run, and the cache holds that output under them (_node_hash).
THEOREM KeysNameOutputs == ASSUME KeysTellPorts PROVE Spec => []KeyNamesOutput
<1>1. IInv => KeyNamesOutput
  <2> SUFFICES ASSUME IInv PROVE KeyNamesOutput
    OBVIOUS
  <2>1. PICK made : Unique(made) /\ Booked(made) BY DEF IInv, Books
  <2> QED BY <2>1 DEF Unique, Booked, KeyNamesOutput
<1> QED BY <1>1, InitIInv, NextIInv, PTL DEF Spec

\* There, a node served from the cache has the outputs it would compute now.
THEOREM CachedFresh == ASSUME KeysTellPorts PROVE Spec => []CachedIsFresh
<1>1. IInv => CachedIsFresh BY DEF IInv, RunInv, Fresh, CachedIsFresh
<1> QED BY <1>1, InitIInv, NextIInv, PTL DEF Spec

\* There, a run of a whole graph or up to a node uses its own results only.
THEOREM StandsOnItself == ASSUME KeysTellPorts PROVE Spec => []RunStandsOnItself
<1>1. IInv => RunStandsOnItself BY DEF IInv, RunInv, Alone, RunStandsOnItself
<1> QED BY <1>1, InitIInv, NextIInv, PTL DEF Spec

\* A run that holds all ancestors skips a node only behind an error.
THEOREM SkipsCaused == Spec => []SkipsHaveACause
<1>1. IInv => SkipsHaveACause BY DEF IInv, RunInv, Caused, SkipsHaveACause
<1> QED BY <1>1, InitIInv, NextIInv, PTL DEF Spec

\* A run ends when the order has passed all nodes, and each of them that is in
\* scope has been settled by then (service.py:667-715).
THEOREM EndsWhole == Spec => []EndsComplete
<1>1. IInv => EndsComplete
  <2> SUFFICES ASSUME IInv, NEW r \in Runs, stage[r] = "done"
               PROVE  DOMAIN status[r] = only[r]
    BY DEF EndsComplete
  <2>1. Shape /\ RunInv(r) /\ Lively(r) /\ ~AtNode(r) BY DEF IInv, Lively, AtNode
  <2>2. popped[r] = Nodes(GraphOf(r)) BY <2>1 DEF RunInv, Ordered
  <2>3. only[r] \subseteq Nodes(GraphOf(r))
    <3>1. request[r] \in Request /\ Accepts(request[r]) BY <2>1, InGraph
    <3> QED BY <2>1, <3>1, ScopeFacts DEF RunInv, Asked, GraphOf
  <2> QED BY <2>1, <2>2, <2>3 DEF RunInv, InHand
<1> QED BY <1>1, InitIInv, NextIInv, PTL DEF Spec

-----------------------------------------------------------------------------
\* The refinement of GraphEvaluation.  What it sees of a run:
AskedOf(r) == IF Accepted(r) THEN request[r] ELSE None
OpenOf(r) == IF Accepted(r) THEN only[r] \ DOMAIN status[r] ELSE {}
ValueOf(r) == [n \in Reported(r) \cap Done(r) |-> result[r][n]]
FailedOf(r) == [n \in Reported(r) \ Done(r) |-> status[r][n]]
HasEnded(r) == Accepted(r) /\ stage[r] = "done"

\* It sees no change of the run.
Alike(r) == /\ AskedOf(r)' = AskedOf(r) /\ OpenOf(r)' = OpenOf(r)
            /\ ValueOf(r)' = ValueOf(r) /\ FailedOf(r)' = FailedOf(r)
            /\ HasEnded(r)' <=> HasEnded(r)

\* A step that it sees of no run is a stutter.
LEMMA Unseen ==
  ASSUME \A k \in Runs : Alike(k)
  PROVE  UNCHANGED Evaluation!vars
<1>1. /\ [k \in Runs |-> AskedOf(k)]' = [k \in Runs |-> AskedOf(k)]
      /\ [k \in Runs |-> OpenOf(k)]' = [k \in Runs |-> OpenOf(k)]
      /\ [k \in Runs |-> ValueOf(k)]' = [k \in Runs |-> ValueOf(k)]
      /\ [k \in Runs |-> FailedOf(k)]' = [k \in Runs |-> FailedOf(k)]
      /\ {k \in Runs : HasEnded(k)}' = {k \in Runs : HasEnded(k)}
  BY DEF Alike
<1> QED
  BY <1>1 DEF Evaluation!vars, AskedOf, OpenOf, ValueOf, FailedOf, HasEnded

\* A run is seen alike when it goes on with what it has reported.
LEMMA GoesOn ==
  ASSUME NEW r \in Runs, request'[r] = request[r], only'[r] = only[r],
         status'[r] = status[r], result'[r] = result[r],
         \/ stage'[r] = stage[r]
         \/ {stage[r], stage'[r]} \cap {"rejected", "done"} = {}
  PROVE  Alike(r)
<1>1. StandsAlone(r)' = StandsAlone(r) /\ Done(r)' = Done(r)
  BY DEF StandsAlone, Done
<1>2. (Accepted(r)' <=> Accepted(r)) /\ (HasEnded(r)' <=> HasEnded(r))
  BY <1>1 DEF Accepted, HasEnded
<1>3. Reported(r)' = Reported(r)
  BY <1>2 DEF Reported
<1> QED
  BY <1>1, <1>2, <1>3 DEF Alike, AskedOf, OpenOf, ValueOf, FailedOf

\* A run that does not stand alone is not seen.
LEMMA NotSeen ==
  ASSUME NEW r \in Runs, ~Accepted(r), ~Accepted(r)'
  PROVE  Alike(r)
<1>1. Reported(r) = {} /\ Reported(r)' = {}
  BY DEF Reported
<1> QED
  BY <1>1 DEF Alike, AskedOf, OpenOf, ValueOf, FailedOf, HasEnded

\* When a node settles the other nodes stay as they are.
LEMMA NodeSettles ==
  ASSUME Shape, NEW r \in Runs, RunInv(r), AtNode(r), Accepted(r), NEW st,
         status' = [status EXCEPT ![r] = Put(@, cur[r], st)],
         UNCHANGED <<request, only>>, stage'[r] \in {"next", "put", "save"}
  PROVE  /\ AskedOf(r)' = AskedOf(r) /\ AskedOf(r) = request[r]
         /\ cur[r] \in OpenOf(r) /\ OpenOf(r)' = OpenOf(r) \ {cur[r]}
         /\ Accepted(r)' /\ ~HasEnded(r) /\ ~HasEnded(r)'
         /\ Reported(r) = DOMAIN status[r] /\ Reported(r)' = DOMAIN status[r] \cup {cur[r]}
         /\ Done(r)' = Done(r) \cup (IF st \in {"ok", "cached"} THEN {cur[r]} ELSE {})
         /\ cur[r] \notin DOMAIN status[r] /\ Done(r) \subseteq DOMAIN status[r]
<1>1. status'[r] = Put(status[r], cur[r], st)
  BY DEF Shape
<1>2. cur[r] \in only[r] /\ cur[r] \notin DOMAIN status[r] /\ stage[r] \in {"bind", "execute", "broken"}
  BY DEF RunInv, InHand, AtNode
<1>3. /\ DOMAIN status'[r] = DOMAIN status[r] \cup {cur[r]} /\ status'[r][cur[r]] = st
      /\ \A n \in DOMAIN status[r] : status'[r][n] = status[r][n]
  BY <1>1, <1>2 DEF Put
<1>4. StandsAlone(r)' = StandsAlone(r)
  BY DEF StandsAlone
<1>5. Accepted(r)' /\ ~HasEnded(r) /\ ~HasEnded(r)'
  BY <1>2, <1>4 DEF Accepted, HasEnded
<1>6. Done(r)' = Done(r) \cup (IF st \in {"ok", "cached"} THEN {cur[r]} ELSE {})
  BY <1>2, <1>3 DEF Done
<1> QED
  BY <1>2, <1>3, <1>5, <1>6 DEF AskedOf, OpenOf, Reported, Done

\* Inputs are the same when the values of what feeds the node are.
LEMMA SameInputs ==
  ASSUME NEW fs, NEW x, NEW y, \A i \in DOMAIN fs : x[fs[i].src] = y[fs[i].src]
  PROVE  [i \in DOMAIN fs |-> [port |-> fs[i].port, of |-> x[fs[i].src], out |-> fs[i].out]]
         = [i \in DOMAIN fs |-> [port |-> fs[i].port, of |-> y[fs[i].src], out |-> fs[i].out]]
OBVIOUS

\* A settled node has its value from the values of what feeds it.
LEMMA SettleRefines ==
  ASSUME Shape, NEW r \in Runs, RunInv(r), AtNode(r), Accepted(r),
         NEW st \in {"ok", "cached"}, NEW v, NEW h, Settle(r, st, v, h),
         UNCHANGED <<request, only>>, stage'[r] \in {"put", "save"},
         \A k \in Runs \ {r} : Alike(k),
         Sources(GraphOf(r), cur[r]) \subseteq Done(r),
         v = Term(Config(r), [i \in DOMAIN Feeds(r) |->
               [port |-> Feeds(r)[i].port, of |-> result[r][Feeds(r)[i].src],
                out |-> Feeds(r)[i].out]],
               IF Config(r) \in Cacheable THEN None ELSE r)
  PROVE  Evaluation!Evaluate(r, cur[r])
<1> DEFINE c == cur[r]
<1>1. status' = [status EXCEPT ![r] = Put(@, c, st)] /\ result'[r] = Put(result[r], c, v)
  BY DEF Settle, Shape
<1>2. /\ AskedOf(r)' = AskedOf(r) /\ AskedOf(r) = request[r]
      /\ c \in OpenOf(r) /\ OpenOf(r)' = OpenOf(r) \ {c}
      /\ Accepted(r)' /\ ~HasEnded(r) /\ ~HasEnded(r)'
      /\ Reported(r) = DOMAIN status[r] /\ Reported(r)' = DOMAIN status[r] \cup {c}
      /\ Done(r)' = Done(r) \cup {c}
      /\ c \notin DOMAIN status[r] /\ Done(r) \subseteq DOMAIN status[r]
  BY <1>1, NodeSettles
<1>3. DOMAIN result[r] = Done(r)
  BY DEF RunInv, Settled
<1>4. /\ result'[r][c] = v /\ \A m \in Done(r) : result'[r][m] = result[r][m]
  BY <1>1, <1>2, <1>3 DEF Put
<1>5. FailedOf(r)' = FailedOf(r)
  <2>1. Reported(r)' \ Done(r)' = Reported(r) \ Done(r)
    BY <1>2
  <2>2. \A m \in Reported(r) \ Done(r) : status'[r][m] = status[r][m]
    BY <1>1, <1>2 DEF Put, Shape
  <2> QED
    BY <2>1, <2>2 DEF FailedOf
<1>6. DOMAIN ValueOf(r) = Done(r) /\ \A m \in Done(r) : ValueOf(r)[m] = result[r][m]
  <2>1. Reported(r) \cap Done(r) = Done(r)
    BY <1>2
  <2>2. ValueOf(r) = [m \in Done(r) |-> result[r][m]]
    BY <2>1 DEF ValueOf
  <2> QED
    BY <2>2
<1>7. v = ValueIn(request[r], c, ValueOf(r), r)
  <2>1. \A i \in DOMAIN Feeds(r) : ValueOf(r)[Feeds(r)[i].src] = result[r][Feeds(r)[i].src]
    <3>1. \A i \in DOMAIN Feeds(r) : Feeds(r)[i].src \in Done(r)
      BY Zenon DEF Sources, Feeds
    <3> QED
      BY <1>6, <3>1, Zenon
  <2>2. [i \in DOMAIN Feeds(r) |-> [port |-> Feeds(r)[i].port,
           of |-> ValueOf(r)[Feeds(r)[i].src], out |-> Feeds(r)[i].out]]
        = [i \in DOMAIN Feeds(r) |-> [port |-> Feeds(r)[i].port,
           of |-> result[r][Feeds(r)[i].src], out |-> Feeds(r)[i].out]]
    BY <2>1, SameInputs, Zenon
  <2>3. Feeds(r) = request[r].graph.feeds[c] /\ Config(r) = request[r].graph.cfg[c]
    BY Zenon DEF Feeds, Config, GraphOf
  <2>4. ValueIn(request[r], c, ValueOf(r), r)
        = Term(Config(r), [i \in DOMAIN Feeds(r) |-> [port |-> Feeds(r)[i].port,
             of |-> ValueOf(r)[Feeds(r)[i].src], out |-> Feeds(r)[i].out]],
             IF Config(r) \in Cacheable THEN None ELSE r)
    BY <2>3, Zenon DEF ValueIn
  <2> QED
    BY <2>2, <2>4, Zenon
<1>8. ValueOf(r)' = [m \in DOMAIN ValueOf(r) \cup {c} |->
        IF m = c THEN ValueIn(request[r], c, ValueOf(r), r) ELSE ValueOf(r)[m]]
  <2>1. Reported(r)' \cap Done(r)' = Done(r) \cup {c}
    BY <1>2
  <2>2. ValueOf(r)' = [m \in Done(r) \cup {c} |-> result'[r][m]]
    BY <2>1 DEF ValueOf
  <2>3. \A m \in Done(r) \cup {c} :
          result'[r][m] = IF m = c THEN ValueIn(request[r], c, ValueOf(r), r) ELSE ValueOf(r)[m]
    BY <1>2, <1>4, <1>6, <1>7
  <2> QED
    BY <1>6, <2>2, <2>3
<1>9. SourcesIn(request[r], c) \subseteq DOMAIN ValueOf(r)
  BY <1>6 DEF SourcesIn, GraphOf
<1> DEFINE asked == [k \in Runs |-> AskedOf(k)]
           open == [k \in Runs |-> OpenOf(k)]
           value == [k \in Runs |-> ValueOf(k)]
           failed == [k \in Runs |-> FailedOf(k)]
           ended == {k \in Runs : HasEnded(k)}
<1>10. /\ asked' = asked /\ failed' = failed /\ ended' = ended
       /\ open' = [open EXCEPT ![r] = OpenOf(r) \ {c}]
       /\ value' = [value EXCEPT ![r] = [m \in DOMAIN ValueOf(r) \cup {c} |->
            IF m = c THEN ValueIn(request[r], c, ValueOf(r), r) ELSE ValueOf(r)[m]]]
  <2>1. \A k \in Runs : /\ AskedOf(k)' = AskedOf(k) /\ FailedOf(k)' = FailedOf(k)
                        /\ HasEnded(k)' <=> HasEnded(k)
                        /\ k # r => OpenOf(k)' = OpenOf(k) /\ ValueOf(k)' = ValueOf(k)
    BY <1>2, <1>5 DEF Alike
  <2>2. asked' = asked /\ failed' = failed
    BY <2>1, Zenon
  <2>3. ended' = ended
    BY <2>1, Zenon
  <2>4. open' = [open EXCEPT ![r] = OpenOf(r) \ {c}]
    BY <1>2, <2>1
  <2>5. value' = [value EXCEPT ![r] = ValueOf(r)']
    BY <2>1
  <2> QED
    BY <1>8, <2>2, <2>3, <2>4, <2>5, Zenon
<1>11. asked[r] = request[r] /\ open[r] = OpenOf(r) /\ value[r] = ValueOf(r)
  BY <1>2
<1>12. /\ c \in open[r] /\ open' = [open EXCEPT ![r] = @ \ {c}]
       /\ SourcesIn(asked[r], c) \subseteq DOMAIN value[r]
       /\ value' = [value EXCEPT ![r] = [m \in DOMAIN @ \cup {c} |->
                      IF m = c THEN ValueIn(asked[r], c, @, r) ELSE @[m]]]
       /\ asked' = asked /\ failed' = failed /\ ended' = ended
  <2> HIDE DEF asked, open, value, failed, ended, c
  <2> QED
    BY <1>2, <1>9, <1>10, <1>11
<1> QED
  BY <1>12 DEF Evaluation!Evaluate, Evaluation!Settle, Evaluation!Ready,
               AskedOf, OpenOf, ValueOf, FailedOf, HasEnded

\* A node fails or is skipped.
LEMMA FailRefines ==
  ASSUME Shape, NEW r \in Runs, RunInv(r), AtNode(r), Accepted(r),
         NEW st \in {"error", "skipped"}, status' = [status EXCEPT ![r] = Put(@, cur[r], st)],
         UNCHANGED <<request, only, result>>, stage'[r] = "next",
         \A k \in Runs \ {r} : Alike(k),
         \/ st = "error" /\ Sources(GraphOf(r), cur[r]) \subseteq Done(r)
         \/ /\ st = "skipped" /\ Sources(GraphOf(r), cur[r]) \subseteq DOMAIN status[r]
            /\ ~(Sources(GraphOf(r), cur[r]) \subseteq Done(r))
  PROVE  Evaluation!Fail(r, cur[r], st)
<1> DEFINE c == cur[r]
<1>1. /\ AskedOf(r)' = AskedOf(r) /\ AskedOf(r) = request[r]
      /\ c \in OpenOf(r) /\ OpenOf(r)' = OpenOf(r) \ {c}
      /\ Accepted(r)' /\ ~HasEnded(r) /\ ~HasEnded(r)'
      /\ Reported(r) = DOMAIN status[r] /\ Reported(r)' = DOMAIN status[r] \cup {c}
      /\ Done(r)' = Done(r)
      /\ c \notin DOMAIN status[r] /\ Done(r) \subseteq DOMAIN status[r]
  BY NodeSettles
<1>2. DOMAIN ValueOf(r) = Done(r) /\ ValueOf(r)' = ValueOf(r)
  BY <1>1 DEF ValueOf
<1>3. /\ DOMAIN FailedOf(r) = DOMAIN status[r] \ Done(r)
      /\ FailedOf(r)' = [m \in DOMAIN FailedOf(r) \cup {c} |-> IF m = c THEN st ELSE FailedOf(r)[m]]
  <2>1. DOMAIN FailedOf(r) = DOMAIN status[r] \ Done(r)
    BY <1>1 DEF FailedOf
  <2>2. Reported(r)' \ Done(r)' = DOMAIN FailedOf(r) \cup {c}
    BY <1>1, <2>1
  <2>3. /\ status'[r][c] = st /\ c \notin DOMAIN FailedOf(r)
        /\ \A m \in DOMAIN FailedOf(r) : status'[r][m] = FailedOf(r)[m]
    BY <1>1, <2>1 DEF Put, Shape, FailedOf
  <2>4. FailedOf(r)' = [m \in DOMAIN FailedOf(r) \cup {c} |-> status'[r][m]]
    BY <2>2 DEF FailedOf
  <2> QED
    BY <2>1, <2>3, <2>4
<1>4. \/ st = "error" /\ SourcesIn(request[r], c) \subseteq DOMAIN ValueOf(r)
      \/ /\ st = "skipped"
         /\ SourcesIn(request[r], c) \subseteq DOMAIN ValueOf(r) \cup DOMAIN FailedOf(r)
         /\ SourcesIn(request[r], c) \cap DOMAIN FailedOf(r) # {}
  BY <1>2, <1>3 DEF SourcesIn, GraphOf
<1> DEFINE asked == [k \in Runs |-> AskedOf(k)]
           open == [k \in Runs |-> OpenOf(k)]
           value == [k \in Runs |-> ValueOf(k)]
           failed == [k \in Runs |-> FailedOf(k)]
           ended == {k \in Runs : HasEnded(k)}
<1>5. /\ asked' = asked /\ value' = value /\ ended' = ended
      /\ open' = [open EXCEPT ![r] = OpenOf(r) \ {c}]
      /\ failed' = [failed EXCEPT ![r] = [m \in DOMAIN FailedOf(r) \cup {c} |->
                                            IF m = c THEN st ELSE FailedOf(r)[m]]]
  <2>1. \A k \in Runs : /\ AskedOf(k)' = AskedOf(k) /\ ValueOf(k)' = ValueOf(k)
                        /\ HasEnded(k)' <=> HasEnded(k)
                        /\ k # r => OpenOf(k)' = OpenOf(k) /\ FailedOf(k)' = FailedOf(k)
    BY <1>1, <1>2 DEF Alike
  <2>2. asked' = asked /\ value' = value
    BY <2>1, Zenon
  <2>3. ended' = ended
    BY <2>1, Zenon
  <2>4. open' = [open EXCEPT ![r] = OpenOf(r) \ {c}]
    BY <1>1, <2>1
  <2>5. failed' = [failed EXCEPT ![r] = FailedOf(r)']
    BY <2>1
  <2> QED
    BY <1>3, <2>2, <2>3, <2>4, <2>5, Zenon
<1>6. /\ asked[r] = request[r] /\ open[r] = OpenOf(r)
      /\ value[r] = ValueOf(r) /\ failed[r] = FailedOf(r)
  BY <1>1
<1>7. /\ c \in open[r] /\ open' = [open EXCEPT ![r] = @ \ {c}]
      /\ failed' = [failed EXCEPT ![r] = [m \in DOMAIN @ \cup {c} |-> IF m = c THEN st ELSE @[m]]]
      /\ \/ st = "error" /\ SourcesIn(asked[r], c) \subseteq DOMAIN value[r]
         \/ /\ st = "skipped"
            /\ SourcesIn(asked[r], c) \subseteq DOMAIN value[r] \cup DOMAIN failed[r]
            /\ SourcesIn(asked[r], c) \cap DOMAIN failed[r] # {}
      /\ asked' = asked /\ value' = value /\ ended' = ended
  <2> HIDE DEF asked, open, value, failed, ended, c
  <2> QED
    BY <1>1, <1>4, <1>5, <1>6
<1> QED
  BY <1>7 DEF Evaluation!Fail, Evaluation!Settle, Evaluation!Ready, Evaluation!Wanting,
              AskedOf, OpenOf, ValueOf, FailedOf, HasEnded

\* The runs whose threads do not step are seen alike.
LEMMA OthersAlike ==
  ASSUME Shape, NEW r \in Runs, Step(r) \/ \E q \in Requests : Start(r, q)
  PROVE  \A k \in Runs \ {r} : Alike(k)
  BY OthersUntouched, GoesOn

\* A request is taken: the evaluation begins, unless it is refused or in part.
LEMMA StartRefines ==
  ASSUME IInv, NEW r \in Runs, NEW q \in Requests, Start(r, q)
  PROVE  Evaluation!Ask(r, q) \/ UNCHANGED Evaluation!vars
<1>0. Shape /\ RunInv(r) /\ \A k \in Runs \ {r} : Alike(k)
  <2>1. Shape /\ RunInv(r) BY DEF IInv
  <2> QED BY <2>1, OthersAlike
<1>1. /\ stage[r] = "idle" /\ request[r] = None /\ request'[r] = q /\ q # None
      /\ UNCHANGED <<status, result>> /\ DOMAIN status[r] = {}
  BY <1>0, RequestsAssumption DEF Start, Shape, RunInv, Asked, InHand, AtNode, Lively
<1>2. ~Accepted(r)
  BY <1>1 DEF Accepted, StandsAlone
<1>3. CASE ~Accepted(r)'
  BY <1>0, <1>2, <1>3, NotSeen, Unseen
<1>4. CASE Accepted(r)'
  <2>1. stage'[r] = "next" /\ only'[r] = InScope(q)
    BY <1>0, <1>4 DEF Start, Goto, Shape, Accepted
  <2>2. Reported(r) = {} /\ Reported(r)' = {}
    BY <1>1 DEF Reported
  <2>3. /\ AskedOf(r) = None /\ AskedOf(r)' = q /\ OpenOf(r)' = InScope(q)
        /\ ValueOf(r)' = ValueOf(r) /\ FailedOf(r)' = FailedOf(r)
        /\ ~HasEnded(r) /\ ~HasEnded(r)'
    BY <1>1, <1>2, <1>4, <2>1, <2>2 DEF AskedOf, OpenOf, ValueOf, FailedOf, HasEnded
  <2> DEFINE asked == [k \in Runs |-> AskedOf(k)]
             open == [k \in Runs |-> OpenOf(k)]
             value == [k \in Runs |-> ValueOf(k)]
             failed == [k \in Runs |-> FailedOf(k)]
             ended == {k \in Runs : HasEnded(k)}
  <2>4. /\ asked[r] = None /\ asked' = [asked EXCEPT ![r] = q]
        /\ open' = [open EXCEPT ![r] = InScope(q)]
        /\ value' = value /\ failed' = failed /\ ended' = ended
    BY <1>0, <2>3 DEF Alike
  <2> QED
    BY <2>4 DEF Evaluation!Ask, AskedOf, OpenOf, ValueOf, FailedOf, HasEnded
<1> QED
  BY <1>3, <1>4

\* The order is at its end: every node in scope has been settled.
LEMMA FinishRefines ==
  ASSUME IInv, NEW r \in Runs, Finish(r), Accepted(r)
  PROVE  Evaluation!End(r)
<1>0. Shape /\ RunInv(r) /\ \A k \in Runs \ {r} : Alike(k)
  <2>1. Shape /\ RunInv(r) BY DEF IInv
  <2> QED BY <2>1, OthersAlike DEF Step
<1>1. /\ stage[r] = "next" /\ stage'[r] = "done" /\ popped[r] = Nodes(GraphOf(r))
      /\ UNCHANGED <<request, only, status, result>>
  BY <1>0 DEF Finish, Goto, Shape, walk
<1>2. only[r] \subseteq Nodes(GraphOf(r)) /\ request[r] # None
  <2>1. request[r] \in Request /\ Accepts(request[r]) /\ request[r] # None
    BY <1>0, <1>1, InGraph, RequestsAssumption DEF Lively
  <2> QED
    BY <1>0, <1>1, <2>1, ScopeFacts DEF RunInv, Asked, Lively, GraphOf
<1>3. only[r] = DOMAIN status[r]
  BY <1>0, <1>1, <1>2 DEF RunInv, InHand, AtNode
<1>4. StandsAlone(r)' = StandsAlone(r) /\ Done(r)' = Done(r) /\ Accepted(r)'
  BY <1>1 DEF StandsAlone, Done, Accepted
<1>5. /\ AskedOf(r)' = AskedOf(r) /\ AskedOf(r) # None
      /\ OpenOf(r)' = OpenOf(r) /\ OpenOf(r) = {}
      /\ ValueOf(r)' = ValueOf(r) /\ FailedOf(r)' = FailedOf(r) /\ HasEnded(r)'
  BY <1>1, <1>2, <1>3, <1>4 DEF AskedOf, OpenOf, ValueOf, FailedOf, Reported, HasEnded
<1> DEFINE asked == [k \in Runs |-> AskedOf(k)]
           open == [k \in Runs |-> OpenOf(k)]
           value == [k \in Runs |-> ValueOf(k)]
           failed == [k \in Runs |-> FailedOf(k)]
           ended == {k \in Runs : HasEnded(k)}
<1>6. /\ asked[r] # None /\ open[r] = {} /\ ended' = ended \cup {r}
      /\ asked' = asked /\ open' = open /\ value' = value /\ failed' = failed
  BY <1>0, <1>5 DEF Alike
<1> QED
  BY <1>6 DEF Evaluation!End, AskedOf, OpenOf, ValueOf, FailedOf, HasEnded

\* A node is served from the cache with the value it would have come to; or it
\* is not there, which nobody sees.
LEMMA LookupRefines ==
  ASSUME IInv, KeysTellPorts, NEW r \in Runs, Lookup(r), Accepted(r), \A k \in Runs \ {r} : Alike(k)
  PROVE  Evaluation!Evaluate(r, cur[r]) \/ UNCHANGED Evaluation!vars
<1> DEFINE h == NodeHash(Config(r), bound[r])
<1>0. Shape /\ RunInv(r) /\ \E made : Books(made)
  BY DEF IInv
<1>1. /\ AtNode(r) /\ stage[r] = "bind" /\ Len(bound[r]) = Len(Feeds(r))
      /\ UNCHANGED <<request, only>>
  BY DEF Lookup, AtNode, walk
<1>2. CASE h # None /\ h \in DOMAIN cache
  <2>1. Settle(r, "cached", cache[h], h) /\ stage'[r] = "save"
    BY <1>0, <1>2 DEF Lookup, Goto, Shape
  <2>2. /\ cache[h] = Term(Config(r), Inputs(bound[r]), None) /\ Config(r) \in Cacheable
        /\ \A i \in 1..Len(Feeds(r)) : Feeds(r)[i].src \in Done(r)
    BY <1>0, <1>1, <1>2, HitIsOutput
  <2>4. /\ Sources(GraphOf(r), cur[r]) \subseteq Done(r)
        /\ Inputs(bound[r]) = [i \in DOMAIN Feeds(r) |->
             [port |-> Feeds(r)[i].port, of |-> result[r][Feeds(r)[i].src],
              out |-> Feeds(r)[i].out]]
    BY <1>0, <1>1, <2>2, InputsAreResults
  <2> HIDE DEF h
  <2> QED
    BY <1>0, <1>1, <2>1, <2>2, <2>4, SettleRefines
<1>3. CASE ~(h # None /\ h \in DOMAIN cache)
  <2>1. stage'[r] = "execute" /\ UNCHANGED <<status, result>>
    BY <1>0, <1>3 DEF Lookup, Goto, Shape
  <2> QED
    BY <1>1, <2>1, GoesOn, Unseen
<1> QED
  BY <1>2, <1>3

\* The inputs of a node that executes are the values of this run.
LEMMA ExecutesOnResults ==
  ASSUME Shape, NEW r \in Runs, RunInv(r), stage[r] = "execute", StandsAlone(r)
  PROVE  /\ Sources(GraphOf(r), cur[r]) \subseteq Done(r)
         /\ Inputs(bound[r]) = [i \in DOMAIN Feeds(r) |->
              [port |-> Feeds(r)[i].port, of |-> result[r][Feeds(r)[i].src],
               out |-> Feeds(r)[i].out]]
<1>1. AtNode(r) /\ Len(bound[r]) = Len(Feeds(r))
  BY DEF AtNode, RunInv, Bindings
<1>2. \A i \in 1..Len(Feeds(r)) : Feeds(r)[i].src \in Done(r)
  BY <1>1 DEF RunInv, Bindings, BoundAt
<1> QED
  BY <1>1, <1>2, InputsAreResults

\* A source without a value has failed before: the order has passed it.
LEMMA BindRefines ==
  ASSUME IInv, NEW r \in Runs, Bind(r), Accepted(r), \A k \in Runs \ {r} : Alike(k)
  PROVE  Evaluation!Fail(r, cur[r], "skipped") \/ UNCHANGED Evaluation!vars
<1> DEFINE k == Len(bound[r]) + 1
           f == Feeds(r)[k]
<1>0. Shape /\ RunInv(r)
  BY DEF IInv
<1>1. AtNode(r) /\ Lively(r) /\ StandsAlone(r) /\ UNCHANGED <<request, only, result>>
  BY DEF Bind, AtNode, Lively, Accepted, walk
<1>2. CASE LacksPort(r, f) \/ HasValue(r, f)
  <2>1. UNCHANGED status /\ stage'[r] \in {"bind", "broken"}
    BY <1>0, <1>2 DEF Bind, Goto, Shape
  <2> QED
    BY <1>1, <2>1, GoesOn, Unseen
<1>3. CASE ~LacksPort(r, f) /\ ~HasValue(r, f)
  <2>1. status' = [status EXCEPT ![r] = Put(@, cur[r], "skipped")] /\ stage'[r] = "next"
    BY <1>0, <1>3 DEF Bind, Goto, Shape
  <2>2. Sources(GraphOf(r), cur[r]) \subseteq DOMAIN status[r]
    BY <1>0, <1>1, SourcesWalked
  <2>3. f.src \in Sources(GraphOf(r), cur[r])
    <3>1. Feeds(r) \in Seq(Feed) /\ \E S : bound[r] \in Seq(S)
      BY <1>0, <1>1, InGraph DEF RunInv, Bindings
    <3>2. k \in DOMAIN Feeds(r)
      BY <3>1 DEF Bind
    <3> QED
      BY <3>2 DEF Sources, Feeds
  <2>4. f.src \notin Done(r)
    BY <1>3 DEF HasValue
  <2> QED
    BY <1>0, <1>1, <2>1, <2>2, <2>3, <2>4, FailRefines
<1> QED
  BY <1>2, <1>3

\* What the thread of r does, an evaluation does.
LEMMA StepRefines ==
  ASSUME IInv, KeysTellPorts, NEW r \in Runs, Step(r), Accepted(r)
  PROVE  \/ Evaluation!Evaluate(r, cur[r]) \/ Evaluation!End(r)
         \/ \E why \in {"error", "skipped"} : Evaluation!Fail(r, cur[r], why)
         \/ UNCHANGED Evaluation!vars
<1>0. Shape /\ RunInv(r) /\ StandsAlone(r) /\ \A k \in Runs \ {r} : Alike(k)
  <2>1. Shape /\ RunInv(r) BY DEF IInv
  <2> QED BY <2>1, OthersAlike DEF Accepted
<1>1. CASE Advance(r) \/ CachePut(r) \/ SaveArtifact(r)
  <2>1. /\ UNCHANGED <<request, only, status, result>>
        /\ {stage[r], stage'[r]} \cap {"rejected", "done"} = {}
    BY <1>0, <1>1 DEF Advance, CachePut, SaveArtifact, Goto, Shape, walk
  <2> QED
    BY <1>0, <2>1, GoesOn, Unseen
<1>2. CASE Execute(r)
  <2> DEFINE v == Output(r, Config(r), bound[r])
  <2>1. /\ AtNode(r) /\ stage[r] = "execute" /\ stage'[r] \in {"put", "save"}
        /\ UNCHANGED <<request, only>> /\ \E h : Settle(r, "ok", v, h)
    BY <1>0, <1>2 DEF Execute, AtNode, Goto, Shape, walk
  <2>2. /\ Sources(GraphOf(r), cur[r]) \subseteq Done(r)
        /\ v = Term(Config(r), [i \in DOMAIN Feeds(r) |->
               [port |-> Feeds(r)[i].port, of |-> result[r][Feeds(r)[i].src],
                out |-> Feeds(r)[i].out]],
               IF Config(r) \in Cacheable THEN None ELSE r)
    BY <1>0, <2>1, ExecutesOnResults DEF Output
  <2> HIDE DEF v
  <2> QED
    BY <1>0, <2>1, <2>2, SettleRefines
<1>3. CASE Raise(r)
  <2>1. /\ AtNode(r) /\ stage[r] = "execute" /\ stage'[r] = "next"
        /\ UNCHANGED <<request, only, result>>
        /\ status' = [status EXCEPT ![r] = Put(@, cur[r], "error")]
    BY <1>0, <1>3 DEF Raise, AtNode, Goto, Shape, walk
  <2>2. Sources(GraphOf(r), cur[r]) \subseteq Done(r)
    BY <1>0, <2>1, ExecutesOnResults
  <2> QED
    BY <1>0, <2>1, <2>2, FailRefines
<1> QED
  BY <1>0, <1>1, <1>2, <1>3, BindRefines, LookupRefines, FinishRefines DEF Step

\* Where nodes of one key read the same OUT ports, the cache, what others store and clear,
\* and the artifacts of other runs do not show: a run that is accepted and stands
\* alone is an evaluation of its graph (execute_graph, execute_graph_stream).
THEOREM RefinesEvaluation == ASSUME KeysTellPorts PROVE Spec => ImplementsEvaluation
<1>1. Init => Evaluation!Init
  <2> SUFFICES ASSUME Init PROVE Evaluation!Init
    OBVIOUS
  <2>1. ASSUME NEW r \in Runs
        PROVE  ~Accepted(r) /\ Reported(r) = {} /\ Reported(r) \cap Done(r) = {}
    BY DEF Init, Accepted, StandsAlone, Reported
  <2> QED
    BY <2>1 DEF Evaluation!Init
<1>2. IInv /\ [Next]_vars => [Evaluation!Next]_(Evaluation!vars)
  <2> SUFFICES ASSUME IInv, [Next]_vars PROVE [Evaluation!Next]_(Evaluation!vars)
    OBVIOUS
  <2>0. Shape
    BY DEF IInv
  <2>1. CASE UNCHANGED vars \/ Clear
    <3>1. \A r \in Runs : Alike(r)
      BY <2>1, GoesOn DEF vars, Clear, walk
    <3> QED
      BY <3>1, Unseen
  <2>2. ASSUME NEW r \in Runs, NEW q \in Requests, Start(r, q)
        PROVE  [Evaluation!Next]_(Evaluation!vars)
    BY <2>2, StartRefines DEF Evaluation!Next
  <2>3. ASSUME NEW r \in Runs, Step(r), Accepted(r)
        PROVE  [Evaluation!Next]_(Evaluation!vars)
    BY <2>0, <2>3, StepRefines DEF Evaluation!Next, Evaluation!Evaluate, Evaluation!Fail,
                                   Evaluation!Settle
  <2>4. ASSUME NEW r \in Runs, Step(r), ~Accepted(r)
        PROVE  [Evaluation!Next]_(Evaluation!vars)
    <3>1. \A k \in Runs \ {r} : Alike(k)
      BY <2>0, <2>4, OthersAlike
    <3>2. ~StandsAlone(r) /\ UNCHANGED request
      <4>1. RunInv(r) /\ stage[r] # "rejected"
        BY <2>4 DEF IInv, Step, Advance, Finish, Bind, Lookup, Execute, Raise, CachePut,
                    SaveArtifact
      <4> QED
        BY <2>4, <4>1 DEF Accepted, Step, Advance, Finish, Bind, Lookup, Execute, Raise,
                          CachePut, SaveArtifact, walk
    <3>3. ~Accepted(r)'
      BY <3>2 DEF Accepted, StandsAlone
    <3> QED
      BY <2>4, <3>1, <3>3, NotSeen, Unseen
  <2> QED
    BY <2>1, <2>2, <2>3, <2>4 DEF Next
<1> QED
  BY <1>1, <1>2, InitIInv, NextIInv, PTL DEF Spec, ImplementsEvaluation, Evaluation!Spec

=============================================================================
