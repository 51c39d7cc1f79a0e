---------------------------- MODULE RelationsProofs ----------------------------
(***************************************************************************)
(* What is proved of the relations in Works: how many there are, that they   *)
(* have an inverse, and that they belong to the right work.                 *)
(***************************************************************************)
EXTENDS WorksProofs, FiniteSetTheorems

\* The relations of two works come from different jobs, none of which is about to make another.
AboutTo(j, a, b, s) ==
    /\ job[j].pc \in {"make", "make_inverse"}
    /\ Pair(j)[1] = a /\ Pair(j)[2] = b /\ job[j].source = s

MakerInv ==
    \A a, b \in Nat : \A s \in Sources :
        \E g \in Injection(Between(a, b, s), Jobs) :
            \A j \in Jobs : AboutTo(j, a, b, s) => \A r \in Between(a, b, s) : g[r] # j

\* One job at a time makes a relation and then its inverse.
HasInverse(r) ==
    \E s \in relations : /\ s.pair[1] = r.pair[2] /\ s.pair[2] = r.pair[1]
                         /\ s.source = r.source /\ s.pair[3] # r.pair[3]
Inverting(j, r) ==
    /\ job[j].pc \in {"find_inverse", "make_inverse"}
    /\ r.pair = <<job[j].work, job[j].related, "cites">>
    /\ r.source = job[j].source /\ r.run = job[j].run

OnePerPair ==
    \A r, s \in relations :
        r.pair[1] = s.pair[1] /\ r.pair[2] = s.pair[2] /\ r.source = s.source => r = s
AllPaired ==
    \A r \in relations : r.pair[1] # r.pair[2] => HasInverse(r) \/ \E j \in Jobs : Inverting(j, r)
Searched(j) ==
    /\ job[j].pc \in {"make", "make_inverse"} =>
         Between(Pair(j)[1], Pair(j)[2], job[j].source) = {}
    /\ /\ job[j].pc \in {"find_inverse", "make_inverse"}
       /\ {job[j].work, job[j].related} \subseteq Live
       => Between(job[j].work, job[j].related, job[j].source) # {}

InverseInv ==
    ~disturbed /\ deaths = 0 => OnePerPair /\ AllPaired /\ \A j \in Jobs : Searched(j)

\* An item by which a work can be looked up.
Located(ids) == \E p \in ids : p[1] \in {"doi", "pmid", "canonical_url"}

\* Every item and every work has the identifiers of one article.
Pure == /\ \A w \in DOMAIN works : Same(works[w].ids, works[w].ids)
        /\ \A j \in Jobs : \A i \in DOMAIN job[j].todo : Same(job[j].todo[i].ids, job[j].todo[i].ids)

\* The errors of the validation, as far as they select the lookup; the work of a job is
\* that of the item's article.
Explained(j) ==
    /\ \A c \in {"doi", "pmid"} \cap job[j].errors : \E p \in item(j).ids : p[1] = c
    /\ "pid" \in job[j].errors => \E v \in Live : works[v].ids \cap item(j).ids # {}
    /\ {"doi", "pmid"} \cap job[j].errors = {} /\ "pid" \in job[j].errors =>
         \A p \in item(j).ids : p[1] \notin {"doi", "pmid"}

Meant(j) ==
    /\ job[j].pc = "rescue" => Explained(j)
    /\ job[j].pc = "update" => Same(item(j).ids, works[job[j].work].ids)
    /\ job[j].pc \in {"related"} \cup Linking /\ Located(item(j).ids) =>
         Same(item(j).ids, works[job[j].work].ids)

ArticleInv ==
    ~disturbed /\ deletes = 0 => doomed = {} /\ \A j \in Jobs : Meant(j)

-------------------------------------------------------------------------------
\* Relations.

Extensible(S, T, g, x, y) ==
    \E h \in Injection(S \cup {x}, T) : \A s \in S \cup {x} : h[s] = y \/ (s \in S /\ h[s] = g[s])
Restrictable(S, T, g) == \E h \in Injection(S, T) : \A s \in S : h[s] = g[s]

\* An element more, for which there is a value that is not used yet.
LEMMA Extended ==
    ASSUME NEW S, NEW T, NEW g \in Injection(S, T), NEW x, NEW y \in T, \A s \in S : g[s] # y
    PROVE  Extensible(S, T, g, x, y)
<1>1. g \in [S -> T] /\ \A a, b \in S : g[a] = g[b] => a = b
  BY DEF Injection, IsInjective
<1>2. CASE x \in S
  <2>1. S \cup {x} = S
    BY <1>2
  <2> QED
    BY <2>1 DEF Extensible
<1>3. CASE x \notin S
  <2> DEFINE h == [s \in S \cup {x} |-> IF s = x THEN y ELSE g[s]]
  <2>1. h \in [S \cup {x} -> T]
    BY <1>1
  <2>2. ASSUME NEW a \in S \cup {x}, NEW b \in S \cup {x}, h[a] = h[b] PROVE a = b
    BY <1>1, <1>3, <2>2
  <2>3. DOMAIN h = S \cup {x} /\ \A s \in S \cup {x} : h[s] = y \/ (s \in S /\ h[s] = g[s])
    OBVIOUS
  <2> HIDE DEF h
  <2>4. h \in Injection(S \cup {x}, T)
    BY <2>1, <2>2, <2>3 DEF Injection, IsInjective
  <2> QED
    BY <2>3, <2>4 DEF Extensible
<1> QED
  BY <1>2, <1>3

\* Fewer elements.
LEMMA Restricted ==
    ASSUME NEW S, NEW T, NEW g \in Injection(S, T), NEW R \in SUBSET S
    PROVE  Restrictable(R, T, g)
<1>1. g \in [S -> T] /\ \A a, b \in S : g[a] = g[b] => a = b
  BY DEF Injection, IsInjective
<1> DEFINE h == [s \in R |-> g[s]]
<1>2. h \in [R -> T] /\ DOMAIN h = R /\ \A s \in R : h[s] = g[s]
  BY <1>1
<1> HIDE DEF h
<1>3. h \in Injection(R, T)
  BY <1>1, <1>2 DEF Injection, IsInjective
<1> QED
  BY <1>2, <1>3 DEF Restrictable

\* What MakeRelation adds, and what destroy removes.
LEMMA RelationsStep ==
    ASSUME TypeInv, [Next]_vars
    PROVE  \/ relations' \subseteq relations
           \/ \E j \in Jobs : MakeRelation(j) /\ {job[j].work, job[j].related} \subseteq Live
<1>1. ASSUME NEW j \in Jobs, JobStep(j)
      PROVE  relations' = relations \/ (MakeRelation(j) /\ {job[j].work, job[j].related} \subseteq Live)
  BY Zenon, <1>1 DEF JobStep, Start, Validate, Insert, Rescue, Update, Related, FindRelation,
           MakeRelation, Dies, tables
<1>2. ASSUME destroy PROVE relations' \subseteq relations
  BY <1>2 DEF destroy
<1>3. ASSUME Elsewhere, ~destroy PROVE relations' = relations
  BY Zenon, <1>3, ElsewhereTables
<1>4. UNCHANGED vars => relations' = relations
  BY DEF vars
<1>5. relations' = relations => relations' \subseteq relations
  OBVIOUS
<1> QED
  BY Zenon, <1>1, <1>2, <1>3, <1>4, <1>5 DEF Next, Elsewhere

\* A job about to make a relation has found none, or was about to make it before.
LEMMA AboutStep ==
    ASSUME TypeInv, [Next]_vars, NEW i \in Jobs, NEW a, NEW b, NEW s, AboutTo(i, a, b, s)'
    PROVE  \/ Between(a, b, s) = {} /\ FindRelation(i)
           \/ AboutTo(i, a, b, s) /\ ~MakeRelation(i)
<1>1. ASSUME NEW j \in Jobs, JobStep(j), i = j
      PROVE  Between(a, b, s) = {} /\ FindRelation(i)
  <2>1. FindRelation(i)
    BY <1>1, Arrives DEF AboutTo
  <2>2. Linked(i) /\ Between(Pair(i)[1], Pair(i)[2], job[i].source) = {}
        /\ job'[i].pc = (IF job[i].pc = "find" THEN "make" ELSE "make_inverse")
    BY Zenon, <2>1, FindFields DEF AboutTo, Ended
  <2>3. Pair(i)[1] = a /\ Pair(i)[2] = b /\ job[i].source = s
    BY <2>1, <2>2 DEF AboutTo, Pair, Linked, Kept, FindRelation
  <2> QED
    BY <2>1, <2>2, <2>3
<1>2. ASSUME job'[i] = job[i] PROVE AboutTo(i, a, b, s)
  BY <1>2 DEF AboutTo, Pair
<1>3. ASSUME NEW j \in Jobs, JobStep(j), i # j PROVE AboutTo(i, a, b, s)
  BY <1>2, <1>3, JobRefers DEF Others
<1>4. ASSUME Elsewhere \/ UNCHANGED vars PROVE AboutTo(i, a, b, s)
  BY Zenon, <1>2, <1>4, ElsewhereTables DEF vars
<1>5. MakeRelation(i) => JobStep(i)
  BY DEF JobStep
<1> QED
  BY Zenon, <1>1, <1>3, <1>4, <1>5 DEF Next, Elsewhere

\* MakerInv is preserved.
LEMMA MakerStep ==
    ASSUME TypeInv, MakerInv, [Next]_vars
    PROVE  MakerInv'
<1> SUFFICES ASSUME NEW a \in Nat, NEW b \in Nat, NEW s \in Sources
             PROVE  \E h \in Injection(Between(a, b, s)', Jobs) :
                      \A i \in Jobs : AboutTo(i, a, b, s)' => \A r \in Between(a, b, s)' : h[r] # i
  BY Zenon DEF MakerInv
<1> DEFINE S == Between(a, b, s)
<1>1. PICK g \in Injection(S, Jobs) :
        \A i \in Jobs : AboutTo(i, a, b, s) => \A r \in S : g[r] # i
  BY Zenon DEF MakerInv
<1>2. ASSUME NEW j \in Jobs, MakeRelation(j), {job[j].work, job[j].related} \subseteq Live,
             AboutTo(j, a, b, s)
      PROVE  \E h \in Injection(S', Jobs) : \A i \in Jobs : AboutTo(i, a, b, s)' => \A r \in S' : h[r] # i
  <2> DEFINE rec == [pair |-> Pair(j), source |-> job[j].source, run |-> job[j].run,
                     by |-> item(j).ids]
  <2>1. relations' = relations \cup {rec}
    BY <1>2, MakeFields
  <2>2. S' = S \cup {rec}
    BY <1>2, <2>1 DEF Between, AboutTo
  <2> HIDE DEF rec, S
  <2>3. Extensible(S, Jobs, g, rec, j)
    BY <1>1, <1>2, Extended
  <2>4. PICK h \in Injection(S \cup {rec}, Jobs) :
          \A r \in S \cup {rec} : h[r] = j \/ (r \in S /\ h[r] = g[r])
    BY Zenon, <2>3 DEF Extensible
  <2>5. ASSUME NEW i \in Jobs, AboutTo(i, a, b, s)', NEW r \in S \cup {rec} PROVE h[r] # i
    <3>1. ~FindRelation(i) \/ i # j
      BY Zenon, <1>2 DEF MakeRelation, FindRelation
    <3>2. i # j
      BY Zenon, <1>2, <2>5, <3>1, AboutStep
    <3>3. job'[i] = job[i]
      BY Zenon, <1>2, <3>2, MakeFields DEF Others
    <3>4. \A u \in S : g[u] # i
      BY <1>1, <2>5, <3>3 DEF AboutTo, Pair
    <3> QED
      BY <2>4, <3>2, <3>4
  <2> QED
    BY <2>2, <2>5
<1>3. ASSUME S' \subseteq S
      PROVE  \E h \in Injection(S', Jobs) : \A i \in Jobs : AboutTo(i, a, b, s)' => \A r \in S' : h[r] # i
  <2>1. ASSUME NEW i \in Jobs, AboutTo(i, a, b, s)', NEW r \in S PROVE g[r] # i
    BY Zenon, <1>1, <2>1, AboutStep
  <2> DEFINE R == S'
  <2>2. R \in SUBSET S
    BY <1>3
  <2> HIDE DEF R, S
  <2>3. Restrictable(R, Jobs, g)
    BY <1>1, <2>2, Restricted
  <2>4. PICK h \in Injection(R, Jobs) : \A r \in R : h[r] = g[r]
    BY Zenon, <2>3 DEF Restrictable
  <2>5. \A i \in Jobs : AboutTo(i, a, b, s)' => \A r \in R : h[r] # i
    BY <2>1, <2>2, <2>4
  <2> QED
    BY <2>5 DEF R
<1>4. relations' \subseteq relations => S' \subseteq S
  BY DEF Between
<1>5. ASSUME NEW j \in Jobs, MakeRelation(j), {job[j].work, job[j].related} \subseteq Live,
             ~AboutTo(j, a, b, s)
      PROVE  S' \subseteq S
  <2>1. /\ job[j].pc \in {"make", "make_inverse"}
        /\ relations' = relations \cup {[pair |-> Pair(j), source |-> job[j].source,
                                         run |-> job[j].run, by |-> item(j).ids]}
    BY Zenon, <1>5, MakeFields
  <2> QED
    BY <1>5, <2>1 DEF Between, AboutTo
<1> QED
  BY Zenon, <1>2, <1>3, <1>4, <1>5, RelationsStep

\* As many relations as there are jobs.
LEMMA MakersCount ==
    ASSUME TypeInv, MakerInv
    PROVE  RelationsPerPair
<1> SUFFICES ASSUME NEW r \in relations
             PROVE  Cardinality(Between(r.pair[1], r.pair[2], r.source)) <= Cardinality(Jobs)
  BY DEF RelationsPerPair, Between
<1>1. r \in Relation
  BY DEF TypeInv
<1>2. r.pair[1] \in Nat /\ r.pair[2] \in Nat /\ r.source \in Sources
  BY <1>1 DEF Relation
<1>3. PICK g \in Injection(Between(r.pair[1], r.pair[2], r.source), Jobs) : TRUE
  BY <1>2 DEF MakerInv
<1> QED
  BY <1>3, FS_Injection, WorksAssumption DEF WorksAssumption

\* The relation that a job makes.
Made(j, r) == /\ relations' = relations \cup {r} /\ r.pair = Pair(j) /\ r.source = job[j].source
              /\ r.run = job[j].run /\ r.by = item(j).ids

LEMMA MadeOne ==
    ASSUME TypeInv, NEW j \in Jobs, MakeRelation(j), {job[j].work, job[j].related} \subseteq Live
    PROVE  \E r : Made(j, r)
<1> DEFINE rec == [pair |-> Pair(j), source |-> job[j].source, run |-> job[j].run,
                   by |-> item(j).ids]
<1>1. relations' = relations \cup {rec}
  BY MakeFields
<1>2. /\ rec.pair = Pair(j) /\ rec.source = job[j].source /\ rec.run = job[j].run
      /\ rec.by = item(j).ids
  OBVIOUS
<1> HIDE DEF rec
<1> QED
  BY Zenon, <1>1, <1>2 DEF Made

\* A job that runs alone makes a relation, or its inverse.
LEMMA InverseMake ==
    ASSUME TypeInv, OnePerPair, AllPaired, NEW j \in Jobs, Searched(j), MakeRelation(j),
           {job[j].work, job[j].related} \subseteq Live,
           \A i \in Jobs \ {j} : job[i].pc = "idle" /\ job'[i].pc = "idle"
    PROVE  OnePerPair' /\ AllPaired' /\ Searched(j)'
<1> DEFINE pair == Pair(j)
           source == job[j].source
           w == job[j].work
           u == job[j].related
<1>0. PICK rec : Made(j, rec)
  BY MadeOne
<1>1. /\ relations' = relations \cup {rec} /\ job[j].pc \in {"make", "make_inverse"}
      /\ IF job[j].pc = "make" THEN Linked(j) /\ job'[j].pc = "find_inverse" ELSE Ended(j)
  BY <1>0, MakeFields DEF Made
<1>2. rec.pair = pair /\ rec.source = source /\ rec.run = job[j].run
  BY <1>0 DEF Made
<1>3. Between(pair[1], pair[2], source) = {}
  BY <1>1 DEF Searched
<1>4. OnePerPair'
  BY <1>1, <1>2, <1>3 DEF OnePerPair, Between
<1>5. ASSUME NEW r, HasInverse(r) PROVE HasInverse(r)'
  BY <1>1, <1>5 DEF HasInverse
<1>6. CASE job[j].pc = "make"
  <2>1. /\ pair = <<w, u, "cites">> /\ Linked(j) /\ job'[j].pc = "find_inverse"
    BY <1>1, <1>6 DEF Pair
  <2>2. Inverting(j, rec)'
    <3>1. rec.pair = <<job'[j].work, job'[j].related, "cites">>
      BY <1>2, <2>1 DEF Linked
    <3> QED
      BY <1>2, <2>1, <3>1 DEF Inverting, Linked, Kept
  <2>3. \A i \in Jobs, r \in relations : ~Inverting(i, r)
    BY <1>6 DEF Inverting
  <2>4. AllPaired'
    <3> SUFFICES ASSUME NEW r \in relations \cup {rec}, r.pair[1] # r.pair[2]
                 PROVE  HasInverse(r)' \/ \E i \in Jobs : Inverting(i, r)'
      BY <1>1 DEF AllPaired
    <3>1. r \in relations => HasInverse(r)
      BY <2>3 DEF AllPaired
    <3> QED
      BY <1>5, <2>2, <3>1
  <2>5. rec \in Between(job[j].work, job[j].related, job[j].source)'
    BY <1>1, <1>2, <2>1 DEF Between, Linked, Kept
  <2>6. Searched(j)'
    BY <2>1, <2>5 DEF Searched
  <2> QED
    BY <1>4, <2>4, <2>6
<1>7. CASE job[j].pc = "make_inverse"
  <2>1. pair = <<u, w, "is_cited_by">> /\ job'[j].pc \in {"idle", "create"}
    BY <1>1, <1>7 DEF Pair, Ended
  <2>2. PICK f \in relations : f.pair[1] = w /\ f.pair[2] = u /\ f.source = source
    BY <1>7 DEF Searched, Between
  <2>3. w # u => f.pair[3] = "cites"
    <3> SUFFICES ASSUME w # u PROVE f.pair[3] = "cites"
      OBVIOUS
    <3>1. ~HasInverse(f)
      BY <1>3, <2>1, <2>2 DEF HasInverse, Between
    <3>2. PICK i \in Jobs : Inverting(i, f)
      BY <2>2, <3>1 DEF AllPaired
    <3> QED
      BY <3>2 DEF Inverting
  <2>4. AllPaired'
    <3> SUFFICES ASSUME NEW r \in relations \cup {rec}, r.pair[1] # r.pair[2]
                 PROVE  HasInverse(r)'
      BY <1>1 DEF AllPaired
    <3>1. CASE r = rec
      <4>1. f \in relations' /\ w # u
        BY <1>1, <1>2, <2>1, <3>1
      <4> QED
        BY <1>2, <2>1, <2>2, <2>3, <3>1, <4>1 DEF HasInverse
    <3>2. ASSUME r \in relations, NEW i \in Jobs, Inverting(i, r) PROVE HasInverse(r)'
      <4>1. i = j
        BY <3>2 DEF Inverting
      <4>2. r.pair[1] = w /\ r.pair[2] = u /\ r.pair[3] = "cites" /\ r.source = source
        BY <3>2, <4>1 DEF Inverting
      <4>3. rec \in relations'
        BY <1>1
      <4> QED
        BY <1>2, <2>1, <4>2, <4>3 DEF HasInverse
    <3> QED
      BY <1>5, <3>1, <3>2 DEF AllPaired
  <2>5. Searched(j)'
    BY <2>1 DEF Searched
  <2> QED
    BY <1>4, <2>4, <2>5
<1> QED
  BY <1>1, <1>6, <1>7

\* A job that runs alone does something else.
LEMMA InverseKept ==
    ASSUME TypeInv, OnePerPair, AllPaired, NEW j \in Jobs, Searched(j), JobStep(j), ~Dies(j),
           relations' = relations, Others(j),
           \A i \in Jobs \ {j} : job[i].pc = "idle" /\ job'[i].pc = "idle"
    PROVE  OnePerPair' /\ AllPaired' /\ Searched(j)'
<1>1. OnePerPair'
  BY DEF OnePerPair
<1>2. ASSUME NEW r, HasInverse(r) PROVE HasInverse(r)'
  BY <1>2 DEF HasInverse
<1>3. ASSUME NEW r \in relations, Inverting(j, r), r.pair[1] # r.pair[2]
      PROVE  HasInverse(r) \/ Inverting(j, r)'
  <2>1. /\ job[j].pc \in {"find_inverse", "make_inverse"}
        /\ r.pair = <<job[j].work, job[j].related, "cites">>
        /\ r.source = job[j].source /\ r.run = job[j].run
    BY <1>3 DEF Inverting
  <2>2. r.pair[1] = job[j].work /\ r.pair[2] = job[j].related /\ r.pair[3] = "cites"
        /\ {job[j].work, job[j].related} \subseteq Live
    <3>1. r.pair \in Live \X Live \X {"cites", "is_cited_by"}
      BY TypeTables DEF TableInv
    <3> QED
      BY <2>1, <3>1
  <2>3. FindRelation(j) \/ MakeRelation(j)
    BY Zenon, <2>1 DEF JobStep, Start, Validate, Insert, Rescue, Update, Related
  <2>4. CASE MakeRelation(j)
    <3>1. PICK s : Made(j, s)
      BY <2>2, <2>4, MadeOne
    <3>2. Between(Pair(j)[1], Pair(j)[2], job[j].source) = {}
      BY <2>4, MakeFields DEF Searched
    <3> QED
      BY <3>1, <3>2 DEF Between, Made
  <2>5. CASE FindRelation(j)
    <3>1. job[j].pc = "find_inverse" /\ Pair(j) = <<job[j].related, job[j].work, "is_cited_by">>
      BY Zenon, <2>1, <2>5, FindFields DEF Pair
    <3>2. CASE Between(job[j].related, job[j].work, job[j].source) = {}
      <4>1. Linked(j) /\ job'[j].pc = "make_inverse"
        BY <2>5, <3>1, <3>2, FindFields
      <4> QED
        BY <2>1, <4>1 DEF Inverting, Linked, Kept
    <3>3. CASE Between(job[j].related, job[j].work, job[j].source) # {}
      <4>1. PICK s \in relations : /\ s.pair[1] = job[j].related /\ s.pair[2] = job[j].work
                                   /\ s.source = job[j].source
        BY <3>3 DEF Between
      <4>2. \A i \in Jobs : ~Inverting(i, s)
        <5>1. ~Inverting(j, s)
          BY <1>3, <2>2, <4>1 DEF Inverting
        <5> QED
          BY <5>1 DEF Inverting
      <4>3. HasInverse(s)
        BY <1>3, <2>2, <4>1, <4>2 DEF AllPaired
      <4>4. PICK f \in relations : /\ f.pair[1] = s.pair[2] /\ f.pair[2] = s.pair[1]
                                   /\ f.source = s.source /\ f.pair[3] # s.pair[3]
        BY <4>3 DEF HasInverse
      <4>5. f = r
        BY <2>1, <2>2, <4>1, <4>4 DEF OnePerPair
      <4> QED
        BY <2>1, <2>2, <4>1, <4>4, <4>5 DEF HasInverse
    <3> QED
      BY <3>2, <3>3
  <2> QED
    BY <2>3, <2>4, <2>5
<1>4. AllPaired'
  <2> SUFFICES ASSUME NEW r \in relations, r.pair[1] # r.pair[2]
               PROVE  HasInverse(r)' \/ \E i \in Jobs : Inverting(i, r)'
    BY DEF AllPaired
  <2>1. ASSUME NEW i \in Jobs, Inverting(i, r) PROVE i = j
    BY <2>1 DEF Inverting
  <2> QED
    BY <1>2, <1>3, <2>1 DEF AllPaired
<1>5. Searched(j)'
  <2>1. \A a, b, s : Between(a, b, s)' = Between(a, b, s)
    BY DEF Between
  <2>2. ASSUME job'[j].pc \in {"make", "make_inverse"}
        PROVE  Between(Pair(j)[1], Pair(j)[2], job[j].source)' = {}
    <3>1. FindRelation(j)
      BY Zenon, <2>2, Arrives
    <3>2. /\ Linked(j) /\ Between(Pair(j)[1], Pair(j)[2], job[j].source) = {}
          /\ job[j].pc \in {"find", "find_inverse"}
          /\ job'[j].pc = (IF job[j].pc = "find" THEN "make" ELSE "make_inverse")
      BY Zenon, <2>2, <3>1, FindFields DEF Ended
    <3>3. Pair(j)'[1] = Pair(j)[1] /\ Pair(j)'[2] = Pair(j)[2] /\ job'[j].source = job[j].source
      BY Zenon, <3>2 DEF Pair, Linked, Kept
    <3> QED
      BY <2>1, <3>2, <3>3
  <2>3. ASSUME job'[j].pc \in {"find_inverse", "make_inverse"},
               {job'[j].work, job'[j].related} \subseteq Live'
        PROVE  Between(job[j].work, job[j].related, job[j].source)' # {}
    <3>1. FindRelation(j) \/ MakeRelation(j)
      BY <2>3, Arrives
    <3>2. Live' = Live
      BY Zenon, <3>1 DEF Live, FindRelation, MakeRelation, tables
    <3>3. ASSUME Linked(j), Between(job[j].work, job[j].related, job[j].source) # {}
          PROVE  Between(job[j].work, job[j].related, job[j].source)' # {}
      BY <2>1, <3>3 DEF Linked, Kept
    <3>4. CASE FindRelation(j)
      <4>1. Linked(j) /\ job[j].pc \in {"find", "find_inverse"}
        BY Zenon, <2>3, <3>4, FindFields DEF Ended
      <4>2. CASE job[j].pc = "find"
        <5>1. Pair(j) = <<job[j].work, job[j].related, "cites">>
          BY <4>2 DEF Pair
        <5> QED
          BY <2>3, <3>3, <3>4, <4>1, <4>2, <5>1, FindFields
      <4>3. CASE job[j].pc = "find_inverse"
        BY Zenon, <2>3, <3>2, <3>3, <4>1, <4>3 DEF Searched, Linked
      <4> QED
        BY <4>1, <4>2, <4>3
    <3>5. CASE MakeRelation(j)
      <4>1. job[j].pc = "make" /\ Linked(j)
        BY <2>3, <3>5, MakeFields DEF Ended, NoJob
      <4>2. {job[j].work, job[j].related} \subseteq Live /\ Pair(j) = <<job[j].work, job[j].related, "cites">>
        BY <2>3, <3>2, <4>1 DEF Linked, Pair
      <4>3. PICK s : Made(j, s)
        BY <3>5, <4>2, MadeOne
      <4>4. Between(job[j].work, job[j].related, job[j].source) # {}
        BY <4>2, <4>3 DEF Between, Made
      <4> QED
        BY <3>3, <4>1, <4>4
    <3> QED
      BY <3>1, <3>4, <3>5
  <2> QED
    BY Zenon, <2>2, <2>3 DEF Searched
<1> QED
  BY <1>1, <1>4, <1>5

\* A work is destroyed with its relations in both directions.
LEMMA InverseDestroy ==
    ASSUME TypeInv, OnePerPair, AllPaired, \A j \in Jobs : Searched(j), destroy
    PROVE  OnePerPair' /\ AllPaired' /\ \A j \in Jobs : Searched(j)'
<1>1. PICK w : w = first(doomed)
  OBVIOUS
<1>2. relations' = {r \in relations : w \notin {r.pair[1], r.pair[2]}} /\ job' = job
  BY <1>1 DEF destroy
<1>3. Live' = Live \ {w}
  BY <1>1, DestroyRows
<1>4. OnePerPair'
  BY <1>2 DEF OnePerPair
<1>5. AllPaired'
  <2> SUFFICES ASSUME NEW r \in relations', r.pair[1] # r.pair[2]
               PROVE  HasInverse(r)' \/ \E j \in Jobs : Inverting(j, r)'
    BY DEF AllPaired
  <2>1. r \in relations /\ w \notin {r.pair[1], r.pair[2]}
    BY <1>2
  <2>2. HasInverse(r) => HasInverse(r)'
    BY <1>2, <2>1 DEF HasInverse
  <2>3. \A j \in Jobs : Inverting(j, r) => Inverting(j, r)'
    BY <1>2 DEF Inverting
  <2> QED
    BY <2>1, <2>2, <2>3 DEF AllPaired
<1>6. ASSUME NEW j \in Jobs PROVE Searched(j)'
  <2>1. job[j].pc \in {"make", "make_inverse"} =>
          Between(Pair(j)[1], Pair(j)[2], job[j].source)' = {}
    BY <1>2 DEF Searched, Between, Pair
  <2>2. ASSUME job[j].pc \in {"find_inverse", "make_inverse"},
               {job[j].work, job[j].related} \subseteq Live'
        PROVE  Between(job[j].work, job[j].related, job[j].source)' # {}
    <3>1. PICK f \in relations : /\ f.pair[1] = job[j].work /\ f.pair[2] = job[j].related
                                 /\ f.source = job[j].source
      BY <1>3, <2>2 DEF Searched, Between
    <3>2. f \in relations'
      BY <1>2, <1>3, <2>2, <3>1
    <3> QED
      BY <1>2, <3>1, <3>2 DEF Between
  <2> QED
    BY <1>2, <2>1, <2>2 DEF Searched
<1> QED
  BY <1>4, <1>5, <1>6

\* InverseInv is preserved.
LEMMA InverseStep ==
    ASSUME TypeInv, AloneInv, InverseInv, [Next]_vars
    PROVE  InverseInv'
<1> SUFFICES ASSUME ~disturbed', deaths' = 0
             PROVE  OnePerPair' /\ AllPaired' /\ \A j \in Jobs : Searched(j)'
  BY DEF InverseInv
<1>1. ~disturbed /\ deaths = 0 /\ \A j \in Jobs : ~Dies(j)
  <2>1. ~disturbed
    BY Zenon, AloneStep
  <2>2. deaths' = deaths \/ deaths' = deaths + 1
    BY Zenon DEF Next, JobStep, Start, Validate, Insert, Rescue, Update, Related, FindRelation,
             MakeRelation, Dies, Install, insert_retrievals, DeleteEvents, destroy, rest, vars
  <2>3. deaths \in Nat
    BY WorksAssumption DEF TypeInv, TypeOK, WorksAssumption
  <2>4. \A j \in Jobs : Dies(j) => deaths' = deaths + 1
    BY DEF Dies
  <2> QED
    BY <2>1, <2>2, <2>3, <2>4
<1>2. OnePerPair /\ AllPaired /\ \A j \in Jobs : Searched(j)
  BY Zenon, <1>1 DEF InverseInv
<1>3. ASSUME NEW j \in Jobs, JobStep(j)
      PROVE  OnePerPair' /\ AllPaired' /\ \A i \in Jobs : Searched(i)'
  <2>1. Others(j) /\ \A i \in Jobs \ {j} : job[i].pc = "idle" /\ job'[i].pc = "idle"
    BY Zenon, <1>3, OnlyOne
  <2>2. \A i \in Jobs \ {j} : Searched(i)'
    BY <2>1 DEF Searched
  <2>3. relations' = relations \/ (MakeRelation(j) /\ {job[j].work, job[j].related} \subseteq Live)
    BY Zenon, <1>3 DEF JobStep, Start, Validate, Insert, Rescue, Update, Related, FindRelation,
             MakeRelation, Dies, tables
  <2>4. OnePerPair' /\ AllPaired' /\ Searched(j)'
    BY Zenon, <1>1, <1>2, <1>3, <2>1, <2>3, InverseMake, InverseKept
  <2> QED
    BY Zenon, <2>2, <2>4
<1>4. ASSUME job' = job, relations' = relations, Live' = Live
      PROVE  OnePerPair' /\ AllPaired' /\ \A j \in Jobs : Searched(j)'
  <2>1. \A a, b, s : Between(a, b, s)' = Between(a, b, s)
    BY <1>4 DEF Between
  <2>2. \A j \in Jobs : Searched(j)'
    BY <1>2, <1>4 DEF Searched, Pair, Between
  <2>3. OnePerPair' /\ AllPaired'
    BY <1>2, <1>4 DEF OnePerPair, AllPaired, HasInverse, Inverting
  <2> QED
    BY <2>2, <2>3
<1>5. ASSUME Elsewhere \/ UNCHANGED vars
      PROVE  OnePerPair' /\ AllPaired' /\ \A j \in Jobs : Searched(j)'
  <2>1. UNCHANGED vars => job' = job /\ relations' = relations /\ Live' = Live
    BY DEF vars, Live
  <2> QED
    BY Zenon, <1>2, <1>4, <1>5, <2>1, InverseDestroy, ElsewhereTables
<1> QED
  BY Zenon, <1>3, <1>5 DEF Next, Elsewhere

\* Relations have their inverse.
LEMMA InverseHolds == InverseInv => InverseRelation
BY DEF InverseInv, AllPaired, HasInverse, Inverting, InverseRelation

-------------------------------------------------------------------------------
\* Works and articles.

\* The items of a job stay items of a report.
LEMMA TodoStep ==
    ASSUME TypeInv, NEW j \in Jobs, JobStep(j)
    PROVE  \/ job'[j].todo \in Reports
           \/ job'[j].todo = job[j].todo
           \/ job'[j].todo = <<>>
           \/ job'[j].todo = Tail(job[j].todo) /\ job[j].pc # "idle"
<1>1. Start(j) => job'[j].todo \in Reports
  BY StartFields
<1>2. Validate(j) \/ Insert(j) => job'[j].todo = job[j].todo
  BY Zenon, ValidateFields, InsertFields DEF Kept
<1>3. NoJob.todo = <<>>
  BY DEF NoJob
<1>4. Ended(j) => job'[j].todo \in {<<>>, Tail(job[j].todo)}
  BY DEF Ended
<1>5. Rescue(j) => job[j].pc # "idle" /\ (Ended(j) \/ job'[j].todo = job[j].todo)
  BY Zenon, RescueFields DEF Looked, Kept
<1>6. Update(j) \/ Dies(j) => job'[j].todo = job[j].todo \/ job'[j] = NoJob
  BY UpdateFields, IdleFields DEF Kept, Dies
<1>7. Related(j) => job[j].pc # "idle" /\ (Ended(j) \/ job'[j].todo = job[j].todo)
  BY RelatedFields DEF Kept
<1>8. FindRelation(j) => job[j].pc # "idle" /\ (Ended(j) \/ job'[j].todo = job[j].todo)
  BY FindFields DEF Linked, Kept
<1>9. MakeRelation(j) =>
        job[j].pc # "idle" /\ (Ended(j) \/ job'[j].todo = job[j].todo \/ job'[j] = NoJob)
  BY Zenon, MakeFields DEF Linked, Kept
<1> QED
  BY Zenon, <1>1, <1>2, <1>3, <1>4, <1>5, <1>6, <1>7, <1>8, <1>9 DEF JobStep

\* The item that a job stores is of one article.
LEMMA PureItem ==
    ASSUME TypeInv, Pure, NEW j \in Jobs, job[j].pc # "idle"
    PROVE  Same(item(j).ids, item(j).ids)
BY Zenon, ItemType DEF Pure

LEMMA PureStep ==
    ASSUME OneArticle, TypeInv, Pure, [Next]_vars
    PROVE  Pure'
<1>1. ASSUME NEW w \in DOMAIN works' PROVE Same(works'[w].ids, works'[w].ids)
  <2>1. ASSUME works' = works PROVE Same(works'[w].ids, works'[w].ids)
    BY <2>1 DEF Pure
  <2>2. ASSUME NEW j \in Jobs, Insert(j), not_unique(item(j).ids, Live) = {}
        PROVE  Same(works'[w].ids, works'[w].ids)
    <3>1. Same(item(j).ids, item(j).ids)
      BY <2>2, InsertFields, PureItem
    <3>2. (w \in DOMAIN works /\ works'[w] = works[w]) \/ works'[w].ids = item(j).ids
      BY <2>2, InsertRows
    <3> QED
      BY <3>1, <3>2 DEF Pure
  <2>3. ASSUME NEW j \in Jobs, Update(j) PROVE Same(works'[w].ids, works'[w].ids)
    <3>1. Same(item(j).ids, item(j).ids)
      BY <2>3, UpdateFields, PureItem
    <3>2. w \in DOMAIN works /\ (works'[w].ids = works[w].ids \/ works'[w].ids = item(j).ids)
      BY Zenon, <2>3, UpdateRows
    <3> QED
      BY <3>1, <3>2 DEF Pure
  <2>4. ASSUME destroy PROVE Same(works'[w].ids, works'[w].ids)
    BY <2>4, DestroyRows DEF Pure, Same
  <2>5. ASSUME NEW j \in Jobs, JobStep(j) PROVE Same(works'[w].ids, works'[w].ids)
    BY Zenon, <2>1, <2>2, <2>3, <2>5, WorksStep
  <2>6. ASSUME Elsewhere \/ UNCHANGED vars PROVE Same(works'[w].ids, works'[w].ids)
    BY Zenon, <2>1, <2>4, <2>6, ElsewhereTables DEF vars
  <2> QED
    BY Zenon, <2>5, <2>6 DEF Next, Elsewhere
<1>2. ASSUME NEW j \in Jobs, NEW i \in DOMAIN job'[j].todo
      PROVE  Same(job'[j].todo[i].ids, job'[j].todo[i].ids)
  <2>1. ASSUME job'[j].todo = job[j].todo PROVE Same(job'[j].todo[i].ids, job'[j].todo[i].ids)
    BY <2>1 DEF Pure
  <2>2. ASSUME JobStep(j) PROVE Same(job'[j].todo[i].ids, job'[j].todo[i].ids)
    <3>1. CASE job'[j].todo \in Reports
      BY <3>1 DEF OneArticle
    <3>2. CASE job'[j].todo = <<>>
      BY <3>2
    <3>3. CASE job'[j].todo = Tail(job[j].todo) /\ job[j].pc # "idle"
      <4>1. job[j].todo \in Seq(Item) /\ job[j].todo # <<>>
        BY <3>3 DEF TypeInv, Refers, JobRec
      <4>2. i + 1 \in DOMAIN job[j].todo /\ job'[j].todo[i] = job[j].todo[i + 1]
        BY <3>3, <4>1, TailType
      <4> QED
        BY <4>2 DEF Pure
    <3> QED
      BY Zenon, <2>1, <2>2, <3>1, <3>2, <3>3, TodoStep
  <2>3. ASSUME NEW k \in Jobs \ {j}, JobStep(k) PROVE job'[j].todo = job[j].todo
    BY <2>3, JobRefers DEF Others
  <2>4. ASSUME Elsewhere \/ UNCHANGED vars PROVE job'[j].todo = job[j].todo
    BY Zenon, <2>4, ElsewhereTables DEF vars
  <2> QED
    BY Zenon, <2>1, <2>2, <2>3, <2>4 DEF Next, Elsewhere
<1> QED
  BY Zenon, <1>1, <1>2 DEF Pure

\* The validation explains which identifiers the item has.
LEMMA ValidateExplains ==
    ASSUME TypeInv, NEW j \in Jobs, Validate(j)
    PROVE  Explained(j)'
<1> DEFINE ids == item(j).ids
<1>1. /\ job[j].pc = "create" /\ Kept(j) /\ job'[j].errors = taken(ids, Live)
  BY ValidateFields
<1>2. works' = works /\ Live' = Live /\ item(j)' = item(j)
  BY <1>1 DEF Validate, tables, Live, Kept, item
<1>3. ids \in SUBSET Ids /\ ids # {}
  BY <1>1, ItemType
<1>4. "doi" # "pid" /\ "pmid" # "pid" /\ \A p \in Ids : p[1] # "pid"
  BY DEF Ids, Column
<1>5. \A c \in {"doi", "pmid"} \cap taken(ids, Live) : \E p \in ids : p[1] = c
  BY <1>4 DEF taken
<1>6. ASSUME "pid" \in taken(ids, Live)
      PROVE  \E v \in Live : pid(ids) \in works[v].ids
  <2>1. PICK v \in Live : pid(works[v].ids) = pid(ids)
    BY <1>3, <1>4, <1>6 DEF taken
  <2>2. works[v].ids \in SUBSET Ids /\ works[v].ids # {}
    BY WorkType DEF TypeInv, Live
  <2> QED
    BY <2>1, <2>2, PidIsOne
<1>7. pid(ids) \in ids
  BY <1>3, PidIsOne
<1>8. "pid" \in taken(ids, Live) => \E v \in Live : works[v].ids \cap ids # {}
  BY <1>6, <1>7
<1>9. ASSUME "pid" \in taken(ids, Live), {"doi", "pmid"} \cap taken(ids, Live) = {}
      PROVE  \A p \in ids : p[1] \notin {"doi", "pmid"}
  <2>1. pid(ids)[1] \in taken(ids, Live)
    BY <1>6, <1>7, <1>9 DEF taken
  <2> QED
    BY <1>3, <1>9, <2>1, PidIsOne
<1> HIDE DEF ids
<1>10. item(j)'.ids = ids
  BY <1>2 DEF ids
<1> QED
  BY <1>1, <1>2, <1>5, <1>8, <1>9, <1>10 DEF Explained

\* The lookup finds a work of the item's article.
LEMMA LookupMeant ==
    ASSUME TypeInv, Pure, NEW j \in Jobs, job[j].pc = "rescue", Explained(j), NEW w \in Live,
           Looked(j, w), job'[j].pc = "update" \/ Located(item(j).ids)
    PROVE  Same(item(j).ids, works[w].ids)
<1> DEFINE ids == item(j).ids
           errors == job[j].errors
           key == Key(errors)
<1>1. Same(ids, ids) /\ Same(works[w].ids, works[w].ids)
  BY Zenon, PureItem, WorkType DEF Pure, TypeInv
<1>2. Of(works[w].ids, key) = Of(ids, key) /\ errors \cap {"doi", "pmid", "pid"} # {}
  BY Zenon DEF Looked, Where
<1>3. ASSUME NEW p \in ids, p \in works[w].ids PROVE Same(ids, works[w].ids)
  BY <1>1, <1>3 DEF Same
<1>4. ASSUME NEW p \in ids, p[1] = key PROVE Same(ids, works[w].ids)
  <2>1. p \in works[w].ids
    BY <1>2, <1>4 DEF Of
  <2> QED
    BY <1>3, <2>1
<1>5. CASE "doi" \in errors
  BY <1>4, <1>5 DEF Explained, Key
<1>6. CASE "doi" \notin errors /\ "pmid" \in errors
  BY <1>4, <1>6 DEF Explained, Key
<1>7. CASE "doi" \notin errors /\ "pmid" \notin errors
  <2>1. "pid" \in errors /\ key = "canonical_url" /\ {"doi", "pmid"} \cap errors = {}
    BY <1>2, <1>7 DEF Key
  <2>2. CASE Located(ids)
    BY <1>4, <2>1, <2>2 DEF Located, Explained
  <2>3. CASE job'[j].pc = "update"
    <3>1. PICK v \in Live : works[v].ids \cap ids # {}
      BY <2>1 DEF Explained
    <3>2. v = w
      BY <2>3, <3>1 DEF Looked
    <3> QED
      BY <1>3, <3>1, <3>2
  <2> QED
    BY <2>2, <2>3
<1> QED
  BY <1>5, <1>6, <1>7

\* What a job that runs alone stores is meant by the item.
LEMMA MeantStep ==
    ASSUME TypeInv, ValidInv, Pure, ~disturbed, NEW j \in Jobs, Meant(j), JobStep(j)
    PROVE  Meant(j)'
<1>1. ASSUME job'[j].pc = "rescue" PROVE Explained(j)'
  <2>1. ASSUME Insert(j) PROVE FALSE
    <3>1. item(j).ids \in SUBSET Ids /\ item(j).ids # {} /\ job[j].pc = "insert"
      BY <2>1, InsertFields, ItemType
    <3>2. \A w \in Live : works[w].ids \cap item(j).ids = {}
      BY Zenon, <3>1 DEF ValidInv
    <3>3. not_unique(item(j).ids, Live) = {}
      BY Zenon, <3>1, <3>2, AllUnique DEF TypeInv
    <3> QED
      BY <1>1, <2>1, <3>3, InsertFields
  <2> QED
    BY Zenon, <1>1, <2>1, Arrives, ValidateExplains
<1>2. ASSUME Rescue(j), job'[j].pc = "update" \/ (job'[j].pc = "related" /\ Located(item(j)'.ids))
      PROVE  Same(item(j)'.ids, works'[job'[j].work].ids)
  <2>1. job[j].pc = "rescue" /\ \E w \in Live : Looked(j, w)
    BY <1>2, RescueFields DEF Ended
  <2>2. PICK w \in Live : Looked(j, w)
    BY <2>1
  <2>3. item(j)' = item(j) /\ job'[j].work = w /\ works' = works
    BY Zenon, <1>2, <2>2 DEF Looked, Kept, item, Rescue, tables
  <2>4. Same(item(j).ids, works[w].ids)
    BY Zenon, <1>2, <2>1, <2>2, <2>3, LookupMeant DEF Meant
  <2> QED
    BY <2>3, <2>4
<1>3. ASSUME Insert(j), job'[j].pc = "related" PROVE Same(item(j)'.ids, works'[job'[j].work].ids)
  <2>1. /\ Kept(j) /\ not_unique(item(j).ids, Live) = {} /\ job'[j].work = Len(works) + 1
        /\ job[j].pc = "insert"
    BY Zenon, <1>3, InsertFields
  <2>2. works'[job'[j].work].ids = item(j).ids /\ item(j)' = item(j)
    BY Zenon, <1>3, <2>1, InsertRows DEF Kept, item
  <2>3. Same(item(j).ids, item(j).ids)
    BY Zenon, <2>1, PureItem
  <2> QED
    BY <2>2, <2>3
<1>4. ASSUME Update(j), job'[j].pc = "related" PROVE Same(item(j)'.ids, works'[job'[j].work].ids)
  <2>1. Kept(j) /\ job'[j].work = job[j].work /\ job[j].pc = "update"
    BY <1>4, UpdateFields DEF NoJob
  <2>2. Same(item(j).ids, item(j).ids) /\ item(j)' = item(j) /\ job[j].work \in DOMAIN works
    BY <2>1, PureItem DEF Kept, item, TypeInv, Refers
  <2>3. CASE job[j].work \in Live
    BY Zenon, <1>4, <2>1, <2>2, <2>3, UpdateRows
  <2>4. CASE job[j].work \notin Live
    <3>1. works'[job[j].work].ids = {}
      BY <1>4, <2>2, <2>4, UpdateRows DEF Live
    <3> QED
      BY <2>1, <3>1 DEF Same
  <2> QED
    BY <2>3, <2>4
<1>5. ASSUME job'[j].pc \in Linking, Located(item(j)'.ids)
      PROVE  Same(item(j)'.ids, works'[job'[j].work].ids)
  <2>1. Related(j) \/ FindRelation(j) \/ MakeRelation(j)
    BY Zenon, <1>5, Arrives DEF Linking
  <2>2. works' = works
    BY <2>1 DEF Related, FindRelation, MakeRelation, tables
  <2>3. /\ Kept(j) /\ job'[j].work = job[j].work /\ job[j].pc \in {"related"} \cup Linking
    <3>1. CASE Related(j)
      BY <1>5, <3>1, RelatedFields DEF Linking, Ended, NoJob
    <3>2. CASE FindRelation(j)
      BY <1>5, <3>2, FindFields DEF Linking, Ended, Linked, NoJob
    <3>3. CASE MakeRelation(j)
      BY <1>5, <3>3, MakeFields DEF Linking, Ended, Linked, NoJob
    <3> QED
      BY <2>1, <3>1, <3>2, <3>3
  <2>4. item(j)' = item(j)
    BY <2>3 DEF Kept, item
  <2> QED
    BY Zenon, <1>5, <2>2, <2>3, <2>4 DEF Meant
<1>6. ASSUME job'[j].pc = "update" PROVE Same(item(j)'.ids, works'[job'[j].work].ids)
  BY Zenon, <1>2, <1>6, Arrives
<1>7. ASSUME job'[j].pc = "related", Located(item(j)'.ids)
      PROVE  Same(item(j)'.ids, works'[job'[j].work].ids)
  BY Zenon, <1>2, <1>3, <1>4, <1>7, Arrives
<1> QED
  BY Zenon, <1>1, <1>5, <1>6, <1>7 DEF Meant

\* Before the first deletion no work is destroyed.
LEMMA DeletesStep ==
    ASSUME TypeInv, [Next]_vars, deletes' = 0
    PROVE  deletes = 0 /\ (doomed = {} => doomed' = {} /\ ~destroy)
<1>1. /\ deletes' = deletes \/ deletes' = deletes + 1
      /\ \A s \in Sources : DeleteEvents(s) => deletes' = deletes + 1
  BY Zenon DEF Next, JobStep, Start, Validate, Insert, Rescue, Update, Related, FindRelation,
           MakeRelation, Dies, Install, insert_retrievals, DeleteEvents, destroy, rest, vars
<1>2. deletes \in Nat
  BY WorksAssumption DEF TypeInv, TypeOK, WorksAssumption
<1>3. deletes = 0 /\ \A s \in Sources : ~DeleteEvents(s)
  BY <1>1, <1>2
<1>4. destroy => doomed # {}
  BY Zenon DEF destroy
<1>5. ~destroy => doomed' = doomed
  BY Zenon, <1>3 DEF Next, JobStep, Start, Validate, Insert, Rescue, Update, Related, FindRelation,
           MakeRelation, Dies, Install, insert_retrievals, rest, vars
<1> QED
  BY <1>3, <1>4, <1>5

\* ArticleInv is preserved.
LEMMA ArticleStep ==
    ASSUME TypeInv, AloneInv, ValidInv, Pure, ArticleInv, [Next]_vars
    PROVE  ArticleInv'
<1> SUFFICES ASSUME ~disturbed', deletes' = 0
             PROVE  doomed' = {} /\ \A j \in Jobs : Meant(j)'
  BY DEF ArticleInv
<1>1. ~disturbed /\ deletes = 0
  BY Zenon, AloneStep, DeletesStep
<1>2. doomed = {} /\ \A j \in Jobs : Meant(j)
  BY Zenon, <1>1 DEF ArticleInv
<1>3. doomed' = {} /\ ~destroy
  BY <1>2, DeletesStep
<1>4. ASSUME NEW j \in Jobs, JobStep(j) PROVE \A i \in Jobs : Meant(i)'
  <2>1. \A i \in Jobs \ {j} : job'[i].pc = "idle"
    BY Zenon, <1>4, OnlyOne
  <2>2. \A i \in Jobs \ {j} : Meant(i)'
    BY <2>1 DEF Meant, Linking
  <2>3. Meant(j)'
    BY Zenon, <1>1, <1>2, <1>4, MeantStep
  <2> QED
    BY Zenon, <2>2, <2>3
<1>5. ASSUME Elsewhere \/ UNCHANGED vars PROVE \A i \in Jobs : Meant(i)'
  <2>1. job' = job /\ works' = works
    BY Zenon, <1>3, <1>5, ElsewhereTables DEF vars
  <2>2. \A i \in Jobs : Meant(i) => Meant(i)'
    BY <2>1 DEF Meant, Explained, item, Live
  <2> QED
    BY <1>2, <2>2
<1> QED
  BY Zenon, <1>3, <1>4, <1>5 DEF Next, Elsewhere

\* The work that a relation was reported for.
Reported(r) == IF r.pair[3] = "cites" THEN r.pair[1] ELSE r.pair[2]
Right(r) == Located(r.by) => Same(r.by, works[Reported(r)].ids)

LEMMA RightMeans == RightWork <=> (~disturbed /\ deletes = 0 => \A r \in relations : Right(r))
BY DEF RightWork, Right, Reported, Located, Same

\* Relations stay with the article.
LEMMA RightStep ==
    ASSUME TypeInv, AloneInv, Pure, ArticleInv, RightWork, [Next]_vars
    PROVE  RightWork'
<1>0. RightWork' <=> (~disturbed' /\ deletes' = 0 => \A r \in relations' : Right(r)')
  BY DEF RightWork, Right, Reported, Located, Same
<1> SUFFICES ASSUME ~disturbed', deletes' = 0, NEW r \in relations' PROVE Right(r)'
  BY Zenon, <1>0
<1>1. ~disturbed /\ deletes = 0
  BY Zenon, AloneStep, DeletesStep
<1>2. doomed = {} /\ (\A j \in Jobs : Meant(j)) /\ \A s \in relations : Right(s)
  BY Zenon, <1>1, RightMeans DEF ArticleInv
<1>3. ~destroy
  BY <1>2, DeletesStep
<1>4. r \in relations => Reported(r) \in Live /\ Reported(r) \in DOMAIN works
  <2>1. r \in relations => r.pair \in Live \X Live \X {"cites", "is_cited_by"}
    BY TypeTables DEF TableInv
  <2> QED
    BY <2>1, WorkType DEF Reported, TypeInv
<1>5. ASSUME r \in relations, works'[Reported(r)].ids = works[Reported(r)].ids PROVE Right(r)'
  BY <1>2, <1>5 DEF Right, Reported, Located, Same
<1>6. ASSUME NEW j \in Jobs, Insert(j), r \in relations PROVE Right(r)'
  <2>1. works'[Reported(r)] = works[Reported(r)]
    BY Zenon, <1>4, <1>6, InsertRows, WorksStep DEF JobStep
  <2> QED
    BY <1>5, <1>6, <2>1
<1>7. ASSUME NEW j \in Jobs, Update(j), r \in relations PROVE Right(r)'
  <2> DEFINE w == Reported(r)
  <2>1. CASE works'[w].ids = works[w].ids
    BY <1>5, <1>7, <2>1
  <2>2. CASE works'[w].ids # works[w].ids
    <3>1. w = job[j].work /\ works'[w].ids = item(j).ids /\ job[j].pc = "update"
      BY Zenon, <1>4, <1>7, <2>2, UpdateRows, UpdateFields
    <3>2. Same(item(j).ids, works[w].ids)
      BY <1>2, <3>1 DEF Meant
    <3>3. PICK q : q \in works[w].ids
      BY <1>4, <1>7 DEF Live
    <3>4. Located(r.by) => Same(r.by, item(j).ids)
      BY <1>2, <1>7, <3>2, <3>3 DEF Right, Same
    <3> QED
      BY <3>1, <3>4 DEF Right, Reported, Located, Same
  <2> QED
    BY <2>1, <2>2
<1>8. ASSUME NEW j \in Jobs, MakeRelation(j), r \notin relations PROVE Right(r)'
  <2>1. {job[j].work, job[j].related} \subseteq Live /\ job[j].pc \in {"make", "make_inverse"}
    BY <1>8, MakeFields
  <2>2. PICK s : Made(j, s)
    BY <1>8, <2>1, MadeOne
  <2>3. r.pair = Pair(j) /\ r.by = item(j).ids
    BY <1>8, <2>2 DEF Made
  <2>4. Reported(r) = job[j].work
    BY <2>1, <2>3 DEF Reported, Pair
  <2>5. works' = works
    BY <1>8 DEF MakeRelation
  <2>6. Located(r.by) => Same(r.by, works[job[j].work].ids)
    BY Zenon, <1>2, <2>1, <2>3 DEF Meant, Linking
  <2> QED
    BY <2>4, <2>5, <2>6 DEF Right, Reported, Located, Same
<1>9. ASSUME works' = works, r \in relations PROVE Right(r)'
  BY <1>5, <1>9
<1>10. ASSUME NEW j \in Jobs, JobStep(j) PROVE Right(r)'
  <2>1. relations' = relations \/ MakeRelation(j)
    BY Zenon, <1>10 DEF JobStep, Start, Validate, Insert, Rescue, Update, Related, FindRelation,
             Dies, tables
  <2>2. Insert(j) \/ Update(j) \/ works' = works
    BY Zenon, <1>10, WorksStep
  <2> QED
    BY Zenon, <1>6, <1>7, <1>8, <1>9, <2>1, <2>2
<1>11. ASSUME Elsewhere \/ UNCHANGED vars PROVE Right(r)'
  <2>1. works' = works /\ relations' = relations
    BY Zenon, <1>3, <1>11, ElsewhereTables DEF vars
  <2> QED
    BY <1>9, <2>1
<1> QED
  BY Zenon, <1>10, <1>11 DEF Next, Elsewhere

-------------------------------------------------------------------------------
\* The theorems.

RelationInv == MakerInv /\ InverseInv

\* They are inductive together with the invariants of works.
LEMMA RelationsInductive == Spec => []RelationInv
<1>1. Init => RelationInv
  <2> SUFFICES ASSUME Init PROVE RelationInv
    OBVIOUS
  <2>3. relations = {} /\ \A j \in Jobs : job[j].pc = "idle"
    BY DEF Init, NoJob
  <2>9. MakerInv
    <3> SUFFICES ASSUME NEW a \in Nat, NEW b \in Nat, NEW s \in Sources
                 PROVE  \E g \in Injection({}, Jobs) : TRUE
      BY <2>3 DEF MakerInv, Between
    <3>1. [r \in {} |-> r] \in Injection({}, Jobs)
      BY DEF Injection, IsInjective
    <3> QED
      BY <3>1
  <2>10. InverseInv
    BY <2>3 DEF InverseInv, OnePerPair, AllPaired, Searched
  <2> QED
    BY <2>9, <2>10 DEF RelationInv
<1>2. Inv /\ RelationInv /\ [Next]_vars => RelationInv'
  BY Zenon, MakerStep, InverseStep DEF Inv, RelationInv
<1> QED
  BY <1>1, <1>2, Inductive, PTL DEF Spec

\* Two works have no more relations of a source in one direction than there are jobs
\* (work.rb 135-144).
THEOREM RelationsBounded == Spec => []RelationsPerPair
<1>1. Inv /\ RelationInv => RelationsPerPair
  BY MakersCount DEF Inv, RelationInv
<1> QED
  BY <1>1, Inductive, RelationsInductive, PTL

\* If one job runs at a time and none is stopped, then every relation of two works has its
\* inverse, or the job that made it is about to make the inverse (work.rb 135-144).
THEOREM InversesMade == Spec => []InverseRelation
<1>1. RelationInv => InverseRelation
  BY InverseHolds DEF RelationInv
<1> QED
  BY <1>1, RelationsInductive, PTL

\* If every item has the identifiers of one article, one job runs at a time and no work is
\* destroyed, then a relation belongs to the article that was reported (work.rb 75-144).
THEOREM WorksRight ==
    ASSUME OneArticle
    PROVE  Spec => []RightWork
<1> DEFINE More == Pure /\ ArticleInv /\ RightWork
<1>1. Init => More
  <2> SUFFICES ASSUME Init PROVE More
    OBVIOUS
  <2>1. \A j \in Jobs : job[j].pc = "idle" /\ job[j].todo = <<>>
    BY DEF Init, NoJob
  <2>2. relations = {} /\ doomed = {}
    BY DEF Init
  <2>3. \A w \in DOMAIN works : works[w].ids = Known
    BY DEF Init
  <2>4. Pure
    BY <2>1, <2>3 DEF Pure, OneArticle
  <2>5. ArticleInv
    BY <2>1, <2>2 DEF ArticleInv, Meant, Linking
  <2>6. RightWork
    BY <2>2 DEF RightWork
  <2> QED
    BY <2>4, <2>5, <2>6
<1>2. Inv /\ More /\ [Next]_vars => More'
  BY Zenon, PureStep, ArticleStep, RightStep DEF Inv
<1> QED
  BY <1>1, <1>2, Inductive, PTL DEF Spec

===============================================================================
