------------------------------ MODULE BootProofs -------------------------------
(* Proofs about Boot, for any files, any domains and any order of reading: a  *)
(* daemon that serves has a policy for what it maps; its hash is of the files *)
(* it was made of; and files that nobody touched make the same daemon again.  *)
EXTENDS Boot, FiniteSetTheorems, TLAPS

\* The agents' limits fit their capacities.
Fits(agents) ==
    \A a \in DOMAIN agents : \A d \in DOMAIN agents[a].policies :
        agents[a].policies[d].enabled => agents[a].policies[d].max \in 1..agents[a].capacity

\* At every stage the agents loaded so far fit, and the two comparisons with
\* domains.toml hold once they were made.
BootInv ==
    /\ Fits(loaded)
    /\ phase \in {"check", "serving"} /\ hasDir => DomainsOf(loaded) \subseteq Range(Mapping)
    /\ phase = "serving" => Range(Mapping) \subseteq DomainsOf(loaded)

LEMMA PoliciesComeFromTheFile ==
    ASSUME NEW c, NEW p \in Policies(c), NEW d \in DOMAIN p
    PROVE  \E k \in DOMAIN c.domains : p[d] = c.domains[k]
BY DEF Policies

\* An agent made of a valid file fits ...
LEMMA AgentFits ==
    ASSUME NEW c, Valid(c), NEW g \in Agents(c), NEW d \in DOMAIN g.policies, g.policies[d].enabled
    PROVE  g.policies[d].max \in 1..g.capacity
<1>1. g.policies \in Policies(c) /\ g.capacity = c.capacity
  BY DEF Agents
<1>2. PICK k \in DOMAIN c.domains : g.policies[d] = c.domains[k]
  BY <1>1, PoliciesComeFromTheFile
<1> QED
  BY <1>1, <1>2 DEF Valid, PolicyFits

\* ... and so does one made of a valid section.
LEMMA SynthesizedFits ==
    ASSUME NEW c, ValidSection(c), NEW g \in Synthesized(c), NEW d \in DOMAIN g.policies
    PROVE  g.policies[d].max \in 1..g.capacity
<1>1. g.policies \in Policies(c) /\ g.capacity = c.capacity
  BY DEF Synthesized
<1>2. PICK k \in DOMAIN c.domains : g.policies[d] = c.domains[k]
  BY <1>1, PoliciesComeFromTheFile
<1> QED
  BY <1>1, <1>2 DEF ValidSection

LEMMA NothingFits == Fits(Nothing)
BY DEF Fits, Nothing

LEMMA BootPreserved ==
    ASSUME BootInv, [Next]_vars
    PROVE  BootInv'
<1>1. ASSUME NEW p, Ends(p), p \notin {"check", "serving"}
      PROVE  BootInv'
  BY <1>1, NothingFits DEF Ends, BootInv
<1>2. ASSUME Refuse
      PROVE  BootInv'
  BY <1>1, <1>2 DEF Refuse
<1>3. CASE Start
  <2>1. ASSUME phase' = "list", UNCHANGED loaded
        PROVE  BootInv'
    BY <2>1 DEF BootInv
  <2>2. ASSUME NEW g \in Synthesized(slime), ValidSection(slime), ~hasDir, hasDir' = hasDir,
               phase' = "check", loaded' = [a \in {DefaultAgent} |-> g]
        PROVE  BootInv'
    <3>1. Fits(loaded')
      BY <2>2, SynthesizedFits DEF Fits
    <3> QED
      BY <2>2, <3>1 DEF BootInv
  <2> QED
    BY <1>2, <1>3, <2>1, <2>2 DEF Start, files
<1>4. CASE List
  BY <1>2, <1>4 DEF List, BootInv
<1>5. ASSUME NEW f \in Files, LoadFile(f)
      PROVE  BootInv'
  <2>1. ASSUME NEW g \in Agents(dir[f]), Valid(dir[f]), phase = "load", phase' = phase,
               loaded' = [a \in DOMAIN loaded \cup {dir[f].agent} |->
                             IF a = dir[f].agent THEN g ELSE loaded[a]]
        PROVE  BootInv'
    <3>1. Fits(loaded')
      BY <2>1, AgentFits DEF Fits, BootInv
    <3> QED
      BY <2>1, <3>1 DEF BootInv
  <2> QED
    BY <1>2, <1>5, <2>1 DEF LoadFile
<1>6. CASE ListAgain
  BY <1>6 DEF ListAgain, BootInv
<1>7. ASSUME NEW f \in Files, HashFile(f)
      PROVE  BootInv'
  BY <1>2, <1>7 DEF HashFile, BootInv
<1>8. CASE CheckAgents
  BY <1>2, <1>8 DEF CheckAgents, BootInv, files
<1>9. CASE CheckMapping
  BY <1>2, <1>9 DEF CheckMapping, BootInv, files
<1>10. CASE Stop
  BY <1>1, <1>10 DEF Stop
<1>11. CASE Edit \/ UNCHANGED vars
  BY <1>11 DEF Edit, vars, files, process, BootInv
<1> QED
  BY <1>3, <1>4, <1>5, <1>6, <1>7, <1>8, <1>9, <1>10, <1>11 DEF Next

\* A daemon that serves maps no action to a domain without a policy, and has no enabled
\* limit that the agent's budget could not cover: what load() and from_toml_str refuse
\* leaves nothing else.
THEOREM Governed == Spec => []EveryActionIsGoverned
<1>1. Init => BootInv
  BY NothingFits DEF Init, BootInv
<1>2. BootInv /\ [Next]_vars => BootInv'
  BY BootPreserved
<1>3. BootInv => EveryActionIsGoverned
  BY DEF BootInv, Fits, EveryActionIsGoverned
<1> QED
  BY <1>1, <1>2, <1>3, PTL DEF Spec

-------------------------------------------------------------------------------
(* What the files say, whoever reads them *)

DomainsIn(c) == {DomainOf[k] : k \in DOMAIN c.domains}

AllDomains == UNION {DomainsIn(dir[f]) : f \in Present}

\* agents/ can be loaded.
Fit ==
    /\ Present # {}
    /\ \A f \in Present : Valid(dir[f])
    /\ \A e, f \in Present : dir[e].agent = dir[f].agent => e = f

\* A start that nobody disturbs ends in a daemon that serves.
Serves ==
    /\ fine
    /\ hasDir => Fit /\ AllDomains \subseteq Range(Mapping) /\ Range(Mapping) \subseteq AllDomains
    /\ ~hasDir => ValidSection(slime) /\ Range(Mapping) \subseteq DomainsIn(slime)

Names == IF hasDir THEN {dir[f].agent : f \in Present} ELSE {DefaultAgent}

\* The manifests that c can have.
Published(c, rate, bound) ==
    {[capacity |-> c.capacity, rate |-> rate, domains |-> p, identityBound |-> bound] :
        p \in Policies(c)}

\* h is the hash of the files of S, the first of agents/.
InOrder(h, S) ==
    /\ h \in Seq(Contents \cup {Garbage, NoFile})
    /\ Len(h) = Cardinality(S)
    /\ \A f \in S : h[Place(f, Present)] = dir[f]
    /\ \A i \in 1..Len(h) : \E f \in S : i = Place(f, Present) /\ h[i] = dir[f]

\* What can be seen of a daemon that these files make.
ServedFromDir(o) ==
    /\ InOrder(o.hash, Present)
    /\ \A f \in Present :
          o.manifests[dir[f].agent] \in Published(dir[f], dir[f].rate, Secret(dir[f]) # "none")

ServedFromSection(o) ==
    /\ o.hash = <<>>
    /\ o.manifests[DefaultAgent] \in Published(slime, 60, FALSE)

Determined(o) ==
    /\ o.verdict = IF Serves THEN "serving" ELSE "refused"
    /\ ~Serves => o.default = "none" /\ o.hash = <<>> /\ o.manifests = Nothing
    /\ Serves =>
          /\ o.default \in (IF Cardinality(Names) = 1 THEN Names ELSE {"none"})
          /\ o.manifests = [a \in Names |-> o.manifests[a]]
          /\ hasDir => ServedFromDir(o)
          /\ ~hasDir => ServedFromSection(o)

-------------------------------------------------------------------------------
(* How far a start that nobody disturbs has come *)

\* The agents are those of the files of S.
LoadedFrom(S) ==
    /\ S \subseteq Present
    /\ read = [f \in S |-> dir[f]]
    /\ DOMAIN loaded = {dir[f].agent : f \in S}
    /\ \A f \in S : Valid(dir[f]) /\ loaded[dir[f].agent] \in Agents(dir[f])
    /\ \A e, f \in S : dir[e].agent = dir[f].agent => e = f

Loading ==
    /\ hasDir /\ Present # {} /\ toRead \subseteq Present
    /\ LoadedFrom(Present \ toRead)

Hashing ==
    /\ hasDir /\ Present # {} /\ toRead \subseteq Present
    /\ LoadedFrom(Present)
    /\ InOrder(hashed, Present \ toRead)
    /\ \A e \in Present \ toRead, f \in toRead : e < f

DirLoaded ==
    /\ Present # {}
    /\ LoadedFrom(Present)
    /\ InOrder(hashed, Present)
    /\ AllDomains \subseteq Range(Mapping)

SectionLoaded ==
    /\ ValidSection(slime)
    /\ read = Nothing /\ hashed = <<>>
    /\ \E g \in Synthesized(slime) : loaded = [a \in {DefaultAgent} |-> g]

Stage ==
    /\ phase \notin {"off", "refused"} => fine
    /\ phase = "list" => hasDir
    /\ phase = "load" => Loading
    /\ phase = "hash" => Hashing
    /\ phase \in {"check", "serving"} /\ hasDir => DirLoaded
    /\ phase \in {"check", "serving"} /\ ~hasDir => SectionLoaded
    /\ phase = "serving" => default \in Defaults(loaded) /\ Range(Mapping) \subseteq DomainsOf(loaded)
    /\ phase = "refused" => ~Serves

\* Nothing is left of an earlier start.
Clean ==
    /\ dir \in [Files -> Contents \cup {Garbage, NoFile}]
    /\ phase \in Phases
    /\ phase \in {"off", "list", "refused"} => toRead = {} /\ loaded = Nothing /\ read = Nothing
    /\ phase # "serving" => default = "none"
    /\ phase \notin {"hash", "check", "serving"} => hashed = <<>>

\* What is remembered of an earlier start is what the files say, and so is the
\* stage of this one.
RepeatInv ==
    /\ Clean
    /\ ~edited => Stage
    /\ previous # Nothing => ~edited /\ Determined(previous)

-------------------------------------------------------------------------------
(* Lemmas about the files *)

LEMMA PresentFinite == IsFiniteSet(Present) /\ Present \subseteq Nat
<1>1. Present \subseteq Files
  BY DEF Present
<1> QED
  BY <1>1, BootAssumption, FS_Subset

\* A file whose keys do not collide has one reading.
LEMMA OnePolicy ==
    ASSUME NEW c, ~Collides(c), NEW p \in Policies(c), NEW q \in Policies(c)
    PROVE  p = q
<1> DEFINE D == {DomainOf[k] : k \in DOMAIN c.domains}
           R == {c.domains[k] : k \in DOMAIN c.domains}
<1>1. p \in [D -> R] /\ q \in [D -> R]
  BY DEF Policies
<1>2. ASSUME NEW d \in D
      PROVE  p[d] = q[d]
  <2>1. PICK j \in DOMAIN c.domains : DomainOf[j] = d /\ p[d] = c.domains[j]
    BY <1>1 DEF Policies
  <2>2. PICK k \in DOMAIN c.domains : DomainOf[k] = d /\ q[d] = c.domains[k]
    BY <1>1 DEF Policies
  <2>3. j = k
    BY <2>1, <2>2 DEF Collides
  <2> QED
    BY <2>1, <2>2, <2>3
<1> HIDE DEF D, R
<1> QED
  BY <1>1, <1>2

LEMMA OneManifest ==
    ASSUME NEW c, ~Collides(c), NEW r, NEW b, NEW m \in Published(c, r, b), NEW n \in Published(c, r, b)
    PROVE  m = n
BY OnePolicy DEF Published

\* Files have one hash.
LEMMA OneHash ==
    ASSUME NEW g, NEW h, InOrder(g, Present), InOrder(h, Present)
    PROVE  g = h
<1>1. Len(g) = Len(h)
  BY DEF InOrder
<1>2. ASSUME NEW i \in 1..Len(g)
      PROVE  g[i] = h[i]
  BY <1>2 DEF InOrder
<1>3. g \in Seq(Contents \cup {Garbage, NoFile}) /\ h \in Seq(Contents \cup {Garbage, NoFile})
  BY DEF InOrder
<1> QED
  BY <1>1, <1>2, <1>3

LEMMA NoFilesNoHash == InOrder(<<>>, {})
BY FS_EmptySet DEF InOrder

\* The next file in the order of the paths takes the next place in the hash.
LEMMA NextPlace ==
    ASSUME NEW h, NEW S, S \subseteq Present, NEW f \in Present \ S, InOrder(h, S),
           \A e \in S : e < f, \A e \in Present \ S : f <= e,
           dir \in [Files -> Contents \cup {Garbage, NoFile}]
    PROVE  InOrder(Append(h, dir[f]), S \cup {f})
<1> DEFINE T == S \cup {f}
           c == dir[f]
           g == Append(h, c)
<1>1. IsFiniteSet(S) /\ IsFiniteSet(T) /\ Cardinality(S) \in Nat /\ Cardinality(T) = Cardinality(S) + 1
  <2>1. IsFiniteSet(S)
    BY PresentFinite, FS_Subset
  <2> QED
    BY <2>1, FS_AddElement, FS_CardinalityType
<1>2. {e \in Present : e <= f} = T
  <2>1. ASSUME NEW e \in Present
        PROVE  e <= f <=> e \in T
    <3>1. e \in Nat /\ f \in Nat
      BY PresentFinite
    <3>2. CASE e \in S
      BY <3>1, <3>2
    <3>3. CASE e \notin S
      BY <3>1, <3>3
    <3> QED
      BY <3>2, <3>3
  <2> HIDE DEF T
  <2>2. T \subseteq Present
    BY DEF T
  <2> QED
    BY <2>1, <2>2
<1>3. Place(f, Present) = Len(h) + 1
  BY <1>1, <1>2 DEF Place, InOrder
<1>4. ASSUME NEW e \in S
      PROVE  Place(e, Present) \in 1..Len(h)
  <2> DEFINE E == {x \in Present : x <= e}
  <2>1. E \subseteq S /\ e \in E
    <3>1. e \in Present /\ e \in Nat /\ f \in Nat
      BY PresentFinite
    <3>2. ASSUME NEW x \in Present, x <= e
          PROVE  x \in S
      <4>1. x \in Nat /\ e < f
        BY PresentFinite
      <4>2. x \notin Present \ S
        BY <3>1, <3>2, <4>1
      <4> QED
        BY <4>2
    <3>3. e <= e
      BY <3>1
    <3> QED
      BY <3>1, <3>2, <3>3
  <2>2. Cardinality(E) \in Nat /\ Cardinality(E) <= Cardinality(S) /\ Cardinality(E) # 0
    <3>1. IsFiniteSet(E) /\ Cardinality(E) <= Cardinality(S)
      BY <1>1, <2>1, FS_Subset
    <3> HIDE DEF E
    <3> QED
      BY <3>1, <2>1, FS_CardinalityType, FS_EmptySet
  <2> QED
    BY <1>1, <2>2 DEF Place, InOrder
<1>5. c \in Contents \cup {Garbage, NoFile}
  BY DEF Present
<1> HIDE DEF c
<1>6. /\ g \in Seq(Contents \cup {Garbage, NoFile}) /\ Len(g) = Len(h) + 1
      /\ g[Len(h) + 1] = c /\ \A i \in 1..Len(h) : g[i] = h[i]
      /\ Len(h) \in Nat
  BY <1>5 DEF InOrder
<1> HIDE DEF g
<1>7. \A e \in T : g[Place(e, Present)] = dir[e]
  BY <1>3, <1>4, <1>6 DEF InOrder, c
<1>8. ASSUME NEW i \in 1..Len(g)
      PROVE  \E e \in T : i = Place(e, Present) /\ g[i] = dir[e]
  <2>1. CASE i = Len(h) + 1
    BY <2>1, <1>3, <1>6 DEF c
  <2>2. CASE i \in 1..Len(h)
    BY <2>2, <1>6 DEF InOrder
  <2> QED
    BY <1>6, <2>1, <2>2
<1>9. Len(g) = Cardinality(T)
  BY <1>1, <1>6 DEF InOrder
<1> HIDE DEF T
<1>10. InOrder(g, T)
  BY <1>6, <1>7, <1>8, <1>9 DEF InOrder
<1> QED
  BY <1>10 DEF g, T, c

LEMMA PoliciesNameTheDomains ==
    ASSUME NEW c, NEW p \in Policies(c)
    PROVE  DOMAIN p = DomainsIn(c)
BY DEF Policies, DomainsIn

LEMMA AgentOfFile ==
    ASSUME NEW c, NEW g \in Agents(c)
    PROVE  /\ g.policies \in Policies(c)
           /\ g.capacity = c.capacity /\ g.rate = c.rate /\ g.secret = Secret(c)
BY DEF Agents

LEMMA DomainsOfDir ==
    ASSUME LoadedFrom(Present)
    PROVE  DomainsOf(loaded) = AllDomains
<1>1. ASSUME NEW f \in Present
      PROVE  DOMAIN loaded[dir[f].agent].policies = DomainsIn(dir[f])
  <2>1. loaded[dir[f].agent] \in Agents(dir[f])
    BY DEF LoadedFrom
  <2>2. loaded[dir[f].agent].policies \in Policies(dir[f])
    BY <2>1, AgentOfFile
  <2> QED
    BY <2>2, PoliciesNameTheDomains
<1>2. DOMAIN loaded = {dir[f].agent : f \in Present}
  BY DEF LoadedFrom
<1> QED
  BY <1>1, <1>2 DEF DomainsOf, AllDomains

LEMMA DomainsOfSection ==
    ASSUME SectionLoaded
    PROVE  DomainsOf(loaded) = DomainsIn(slime)
<1>1. PICK g \in Synthesized(slime) : loaded = [a \in {DefaultAgent} |-> g]
  BY DEF SectionLoaded
<1>2. DOMAIN g.policies = DomainsIn(slime)
  BY PoliciesNameTheDomains DEF Synthesized
<1> QED
  BY <1>1, <1>2 DEF DomainsOf

-------------------------------------------------------------------------------
(* While nobody writes, what the files say stays *)

LEMMA FilesStay ==
    ASSUME UNCHANGED files
    PROVE  /\ fine' = fine /\ hasDir' = hasDir /\ dir' = dir /\ slime' = slime
           /\ Present' = Present
           /\ AllDomains' = AllDomains
           /\ Names' = Names
           /\ Serves' <=> Serves
<1>1. fine' = fine /\ hasDir' = hasDir /\ dir' = dir /\ slime' = slime
  BY DEF files
<1>2. Present' = Present
  BY <1>1 DEF Present
<1>3. AllDomains' = AllDomains
  BY <1>1, <1>2 DEF AllDomains
<1>4. Names' = Names
  BY <1>1, <1>2 DEF Names
<1>5. Fit' <=> Fit
  BY <1>1, <1>2 DEF Fit
<1>6. Serves' <=> Serves
  BY <1>1, <1>3, <1>5 DEF Serves
<1> QED
  BY <1>1, <1>2, <1>3, <1>4, <1>6, Zenon

LEMMA PreviousStays ==
    ASSUME UNCHANGED files, NEW o, Determined(o), previous' = o
    PROVE  Determined(previous)'
<1>1. ServedFromDir(o) /\ hasDir => ServedFromDir(previous)'
  <2>1. dir' = dir /\ Present' = Present /\ previous' = o
    BY FilesStay
  <2>2. InOrder(o.hash, Present) => InOrder(previous.hash, Present)'
    <3>1. \A f : Place(f, Present)' = Place(f, Present)
      BY <2>1 DEF Place
    <3> QED
      BY <2>1, <3>1 DEF InOrder
  <2> QED
    BY <2>1, <2>2 DEF ServedFromDir
<1>2. ServedFromSection(o) => ServedFromSection(previous)'
  BY FilesStay DEF ServedFromSection
<1> QED
  BY FilesStay, <1>1, <1>2 DEF Determined

LEMMA OrderStays ==
    ASSUME UNCHANGED files, NEW S, InOrder(hashed', S)
    PROVE  /\ (Present \ toRead)' = S => InOrder(hashed, Present \ toRead)'
           /\ Present = S => InOrder(hashed, Present)'
BY FilesStay DEF InOrder, Place

LEMMA LoadedStays ==
    ASSUME UNCHANGED <<files, loaded, read>>, NEW S, LoadedFrom(S)
    PROVE  /\ (Present \ toRead)' = S => LoadedFrom(Present \ toRead)'
           /\ Present = S => LoadedFrom(Present)'
<1>1. UNCHANGED files /\ loaded' = loaded /\ read' = read
  OBVIOUS
<1> QED
  BY <1>1, FilesStay DEF LoadedFrom

-------------------------------------------------------------------------------
(* What the files say is what can be seen *)

\* A file that is served can be read in two ways.
TwoWays ==
    \/ hasDir /\ \E f \in Present : Collides(dir[f])
    \/ ~hasDir /\ Collides(slime)

LEMMA FilesDetermine ==
    ASSUME NEW o, NEW p, Determined(o), Determined(p)
    PROVE  /\ o.verdict = p.verdict /\ o.default = p.default /\ o.hash = p.hash
           /\ o.manifests = p.manifests \/ (Serves /\ TwoWays)
<1>1. o.verdict = p.verdict
  BY DEF Determined
<1>2. o.default = p.default
  <2>1. CASE Serves /\ Cardinality(Names) = 1
    <3>1. IsFiniteSet(Names)
      <4>1. CASE hasDir
        <5>1. IsFiniteSet({dir[f].agent : f \in Present})
          <6> DEFINE T == {dir[f].agent : f \in Present}
                     agentOf == [f \in Present |-> dir[f].agent]
          <6>1. agentOf \in Surjection(Present, T)
            BY DEF Surjection
          <6> HIDE DEF T, agentOf
          <6>2. IsFiniteSet(T)
            BY <6>1, PresentFinite, FS_Surjection
          <6> QED
            BY <6>2 DEF T
        <5> QED
          BY <4>1, <5>1 DEF Names
      <4>2. CASE ~hasDir
        BY <4>2, FS_Singleton DEF Names
      <4> QED
        BY <4>1, <4>2
    <3>2. \E x : Names = {x}
      BY <2>1, <3>1, FS_Singleton
    <3> QED
      BY <2>1, <3>2 DEF Determined
  <2>2. CASE ~Serves \/ Cardinality(Names) # 1
    BY <2>2 DEF Determined
  <2> QED
    BY <2>1, <2>2
<1>3. o.hash = p.hash
  <2>1. CASE Serves /\ hasDir
    BY <2>1, OneHash DEF Determined, ServedFromDir
  <2>2. CASE ~Serves \/ ~hasDir
    BY <2>2 DEF Determined, ServedFromSection
  <2> QED
    BY <2>1, <2>2
<1>4. ASSUME Serves, ~TwoWays
      PROVE  o.manifests = p.manifests
  <2>1. ASSUME NEW a \in Names
        PROVE  o.manifests[a] = p.manifests[a]
    <3>1. CASE hasDir
      <4>1. PICK f \in Present : a = dir[f].agent
        BY <3>1 DEF Names
      <4>2. ~Collides(dir[f])
        BY <1>4, <3>1 DEF TwoWays
      <4>3. ServedFromDir(o) /\ ServedFromDir(p)
        BY <1>4, <3>1 DEF Determined
      <4> QED
        BY <4>1, <4>2, <4>3, OneManifest DEF ServedFromDir
    <3>2. CASE ~hasDir
      <4>1. a = DefaultAgent /\ ~Collides(slime)
        BY <1>4, <3>2 DEF Names, TwoWays
      <4>2. ServedFromSection(o) /\ ServedFromSection(p)
        BY <1>4, <3>2 DEF Determined
      <4> QED
        BY <4>1, <4>2, OneManifest DEF ServedFromSection
    <3> QED
      BY <3>1, <3>2
  <2>2. /\ o.manifests = [a \in Names |-> o.manifests[a]]
        /\ p.manifests = [a \in Names |-> p.manifests[a]]
    BY <1>4 DEF Determined
  <2>3. [a \in Names |-> o.manifests[a]] = [a \in Names |-> p.manifests[a]]
    BY <2>1
  <2> QED
    BY <2>2, <2>3
<1>5. ~Serves => o.manifests = p.manifests
  BY DEF Determined
<1> QED
  BY <1>1, <1>2, <1>3, <1>4, <1>5

LEMMA OutcomeServed ==
    ASSUME Clean, Stage, phase = "serving"
    PROVE  Serves /\ Determined(Outcome)
<1>1. fine /\ Range(Mapping) \subseteq DomainsOf(loaded) /\ default \in Defaults(loaded)
  BY DEF Stage
<1>2. CASE hasDir
  <2>1. DirLoaded
    BY <1>2 DEF Stage
  <2>2. Serves
    BY <1>1, <1>2, <2>1, DomainsOfDir DEF Serves, DirLoaded, LoadedFrom, Fit
  <2>3. DOMAIN loaded = Names
    BY <1>2, <2>1 DEF DirLoaded, LoadedFrom, Names
  <2>4. ASSUME NEW f \in Present
        PROVE  Manifest(dir[f].agent) \in Published(dir[f], dir[f].rate, Secret(dir[f]) # "none")
    <3>1. loaded[dir[f].agent] \in Agents(dir[f])
      BY <2>1 DEF DirLoaded, LoadedFrom
    <3> QED
      BY <3>1, AgentOfFile DEF Manifest, Published
  <2>5. ServedFromDir(Outcome)
    <3>1. Outcome.hash = hashed
      BY DEF Outcome
    <3>2. ASSUME NEW f \in Present
          PROVE  Outcome.manifests[dir[f].agent] = Manifest(dir[f].agent)
      BY <1>2, <2>3 DEF Outcome, Names
    <3> QED
      BY <2>1, <2>4, <3>1, <3>2 DEF ServedFromDir, DirLoaded
  <2> QED
    BY <1>1, <1>2, <2>2, <2>3, <2>5 DEF Determined, Outcome, Defaults
<1>3. CASE ~hasDir
  <2>1. SectionLoaded
    BY <1>3 DEF Stage
  <2>2. Serves
    BY <1>1, <1>3, <2>1, DomainsOfSection DEF Serves, SectionLoaded
  <2>3. PICK g \in Synthesized(slime) : loaded = [a \in {DefaultAgent} |-> g]
    BY <2>1 DEF SectionLoaded
  <2>4. DOMAIN loaded = Names
    BY <1>3, <2>3 DEF Names
  <2>5. Manifest(DefaultAgent) \in Published(slime, 60, FALSE)
    <3>1. PICK p \in Policies(slime) :
             g = [capacity |-> slime.capacity, rate |-> 60, policies |-> p, secret |-> "none"]
      BY DEF Synthesized
    <3>2. loaded[DefaultAgent] = g
      BY <2>3
    <3>3. Manifest(DefaultAgent) =
             [capacity |-> slime.capacity, rate |-> 60, domains |-> p, identityBound |-> FALSE]
      <4>1. Manifest(DefaultAgent) =
               [capacity |-> g.capacity, rate |-> g.rate, domains |-> g.policies,
                identityBound |-> g.secret # "none"]
        BY <3>2 DEF Manifest
      <4>2. /\ g.capacity = slime.capacity /\ g.rate = 60 /\ g.policies = p
            /\ (g.secret # "none") = FALSE
        BY <3>1
      <4> QED
        BY <4>1, <4>2, Zenon
    <3> QED
      BY <3>3 DEF Published
  <2>6. ServedFromSection(Outcome)
    BY <1>3, <2>1, <2>4, <2>5 DEF ServedFromSection, SectionLoaded, Outcome, Names
  <2> QED
    BY <1>1, <1>3, <2>2, <2>4, <2>6 DEF Determined, Outcome, Defaults
<1> QED
  BY <1>2, <1>3

LEMMA OutcomeRefused ==
    ASSUME Clean, Stage, phase = "refused"
    PROVE  ~Serves /\ Determined(Outcome)
<1>1. ~Serves
  BY DEF Stage
<1>2. loaded = Nothing /\ default = "none" /\ hashed = <<>>
  BY DEF Clean
<1>3. DOMAIN loaded = {}
  BY <1>2 DEF Nothing
<1>4. Outcome.manifests = Nothing
  BY <1>3 DEF Outcome, Nothing
<1> QED
  BY <1>1, <1>2, <1>4 DEF Determined, Outcome

-------------------------------------------------------------------------------
(* The steps *)

\* A step of the boot leaves the files and what is remembered of them.
LEMMA StageSuffices ==
    ASSUME RepeatInv, UNCHANGED <<files, previous, edited>>, Clean', ~edited => Stage'
    PROVE  RepeatInv'
<1>1. UNCHANGED files /\ previous' = previous /\ edited' = edited
  OBVIOUS
<1>2. previous' # Nothing => ~edited' /\ Determined(previous)'
  <2> HAVE previous' # Nothing
  <2>1. ~edited /\ Determined(previous)
    BY <1>1 DEF RepeatInv
  <2> QED
    BY <1>1, <2>1, PreviousStays
<1> QED
  BY <1>1, <1>2 DEF RepeatInv

LEMMA RefusedRightly ==
    ASSUME RepeatInv, Refuse, UNCHANGED <<files, previous, edited>>, ~edited => ~Serves
    PROVE  RepeatInv'
<1>1. UNCHANGED files /\ edited' = edited
  OBVIOUS
<1>2. Clean'
  BY <1>1, FilesStay DEF RepeatInv, Clean, Refuse, Ends, Phases
<1>3. ~edited => Stage'
  BY <1>1, FilesStay DEF Stage, Refuse, Ends
<1> QED
  BY <1>2, <1>3, StageSuffices

LEMMA StartRepeats ==
    ASSUME RepeatInv, Start
    PROVE  RepeatInv'
<1>1. UNCHANGED files /\ previous' = previous /\ edited' = FALSE /\ phase = "off"
  BY DEF Start
<1>2. loaded = Nothing /\ read = Nothing /\ default = "none" /\ hashed = <<>> /\ toRead = {}
  BY <1>1 DEF RepeatInv, Clean
<1>3. Clean'
  <2>1. dir' \in [Files -> Contents \cup {Garbage, NoFile}]
    BY <1>1, FilesStay DEF RepeatInv, Clean
  <2> QED
    BY <1>2, <2>1 DEF Start, Refuse, Ends, Clean, Phases
<1>4. previous' # Nothing => ~edited' /\ Determined(previous)'
  BY <1>1, PreviousStays DEF RepeatInv
<1>5. Stage'
  <2>1. CASE ~fine /\ Refuse
    BY <2>1, <1>1, FilesStay DEF Stage, Refuse, Ends, Serves
  <2>2. CASE fine /\ hasDir /\ phase' = "list"
    BY <2>2, <1>1, FilesStay DEF Stage
  <2>3. CASE /\ fine /\ ~hasDir /\ ValidSection(slime)
             /\ phase' = "check"
             /\ \E g \in Synthesized(slime) : loaded' = [a \in {DefaultAgent} |-> g]
             /\ UNCHANGED <<toRead, default, hashed, read>>
    <3>1. SectionLoaded'
      BY <2>3, <1>1, <1>2, FilesStay DEF SectionLoaded
    <3> QED
      BY <2>3, <3>1, <1>1, FilesStay DEF Stage
  <2>4. CASE fine /\ ~hasDir /\ ~ValidSection(slime) /\ Refuse
    <3>1. ~Serves
      BY <2>4 DEF Serves
    <3> QED
      BY <2>4, <3>1, <1>1, FilesStay DEF Stage, Refuse, Ends
  <2> QED
    BY <2>1, <2>2, <2>3, <2>4 DEF Start
<1> QED
  BY <1>1, <1>3, <1>4, <1>5 DEF RepeatInv

LEMMA ListRepeats ==
    ASSUME RepeatInv, List
    PROVE  RepeatInv'
<1>1. UNCHANGED files /\ UNCHANGED <<files, previous, edited>> /\ phase = "list"
  BY DEF List, history
<1>2. CASE Present = {} /\ Refuse
  <2>1. ~edited => ~Serves
    BY <1>1, <1>2 DEF RepeatInv, Stage, Serves, Fit
  <2> QED
    BY <1>1, <1>2, <2>1, RefusedRightly
<1>3. CASE Present # {} /\ phase' = "load" /\ toRead' = Present /\ UNCHANGED <<loaded, default, hashed, read>>
  <2>1. loaded = Nothing /\ read = Nothing /\ default = "none" /\ hashed = <<>>
    BY <1>1 DEF RepeatInv, Clean
  <2>2. Clean'
    BY <1>1, <1>3, <2>1, FilesStay DEF RepeatInv, Clean, Phases
  <2>3. ASSUME ~edited
        PROVE  Stage'
    <3>1. fine /\ hasDir
      BY <1>1, <2>3 DEF RepeatInv, Stage
    <3>2. (Present \ toRead)' = {}
      BY <1>1, <1>3, FilesStay
    <3>3. LoadedFrom({})
      BY <2>1 DEF LoadedFrom, Nothing
    <3>4. LoadedFrom(Present \ toRead)'
      BY <1>1, <1>3, <3>2, <3>3, LoadedStays
    <3>5. Loading'
      BY <1>1, <1>3, <3>1, <3>4, FilesStay DEF Loading
    <3> QED
      BY <1>1, <1>3, <3>1, <3>5, FilesStay DEF Stage
  <2> QED
    BY <1>1, <2>2, <2>3, StageSuffices
<1> QED
  BY <1>2, <1>3 DEF List

LEMMA ListAgainRepeats ==
    ASSUME RepeatInv, ListAgain
    PROVE  RepeatInv'
<1>1. /\ UNCHANGED files /\ UNCHANGED <<files, loaded, read>> /\ UNCHANGED <<files, previous, edited>>
      /\ phase = "load" /\ toRead = {} /\ phase' = "hash" /\ toRead' = Present
      /\ UNCHANGED <<loaded, default, hashed, read>>
  BY DEF ListAgain, history
<1>2. Clean'
  BY <1>1, FilesStay DEF RepeatInv, Clean, Phases
<1>3. ASSUME ~edited
      PROVE  Stage'
  <2>1. fine /\ Loading /\ hashed = <<>>
    BY <1>1, <1>3 DEF RepeatInv, Stage, Clean
  <2>2. Present \ toRead = Present /\ (Present \ toRead)' = {}
    BY <1>1, FilesStay
  <2>3. LoadedFrom(Present)'
    BY <1>1, <2>1, <2>2, LoadedStays DEF Loading
  <2>4. InOrder(hashed, Present \ toRead)'
    BY <1>1, <2>1, <2>2, NoFilesNoHash, OrderStays
  <2>5. Hashing'
    BY <1>1, <2>1, <2>2, <2>3, <2>4, FilesStay DEF Hashing, Loading
  <2> QED
    BY <1>1, <2>1, <2>5, FilesStay DEF Stage
<1> QED
  BY <1>1, <1>2, <1>3, StageSuffices

LEMMA LoadFileRepeats ==
    ASSUME RepeatInv, NEW f \in Files, LoadFile(f)
    PROVE  RepeatInv'
<1> DEFINE c == dir[f]
           Accepted == c # NoFile /\ Valid(c) /\ c.agent \notin DOMAIN loaded
           S == Present \ toRead
           T == S \cup {f}
<1>1. UNCHANGED files /\ UNCHANGED <<files, previous, edited>> /\ phase = "load" /\ f \in toRead
  BY DEF LoadFile, history
<1>2. ~edited => fine /\ Loading
  BY <1>1 DEF RepeatInv, Stage
<1>3. CASE ~Accepted /\ Refuse
  <2>1. ASSUME ~edited
        PROVE  ~Serves
    <3>1. hasDir /\ f \in Present /\ c # NoFile
      BY <1>1, <1>2, <2>1 DEF Loading, Present
    <3>2. CASE ~Valid(c)
      BY <3>1, <3>2 DEF Serves, Fit
    <3>3. CASE c.agent \in DOMAIN loaded
      <4>1. PICK e \in S : c.agent = dir[e].agent
        BY <1>2, <2>1, <3>3 DEF Loading, LoadedFrom
      <4>2. e # f /\ e \in Present
        BY <1>1, <4>1
      <4> QED
        BY <3>1, <4>1, <4>2 DEF Serves, Fit
    <3> QED
      BY <1>3, <3>1, <3>2, <3>3
  <2> QED
    BY <1>1, <1>3, <2>1, RefusedRightly
<1>4. ASSUME Accepted, NEW g \in Agents(c), phase' = phase, default' = default, hashed' = hashed,
             loaded' = [a \in DOMAIN loaded \cup {c.agent} |-> IF a = c.agent THEN g ELSE loaded[a]],
             read' = [e \in DOMAIN read \cup {f} |-> IF e = f THEN c ELSE read[e]],
             toRead' = toRead \ {f}
      PROVE  RepeatInv'
  <2>1. Clean'
    BY <1>1, <1>4, FilesStay DEF RepeatInv, Clean, Phases
  <2>2. ASSUME ~edited
        PROVE  Stage'
    <3>1. /\ hasDir /\ fine /\ Present # {} /\ toRead \subseteq Present
          /\ read = [e \in S |-> dir[e]]
          /\ DOMAIN loaded = {dir[e].agent : e \in S}
          /\ \A e \in S : Valid(dir[e]) /\ loaded[dir[e].agent] \in Agents(dir[e])
          /\ \A d, e \in S : dir[d].agent = dir[e].agent => d = e
      BY <1>2, <2>2 DEF Loading, LoadedFrom
    <3>2. T \subseteq Present /\ (Present \ toRead)' = T /\ f \notin S
      BY <1>1, <1>4, <3>1, FilesStay
    <3>3. \A e \in S : dir[e].agent # c.agent
      BY <1>4, <3>1
    <3>4. read' = [e \in T |-> dir[e]]
      BY <1>4, <3>1, <3>2
    <3>5. DOMAIN loaded' = {dir[e].agent : e \in T}
      BY <1>4, <3>1
    <3>6. ASSUME NEW e \in T
          PROVE  Valid(dir[e]) /\ loaded'[dir[e].agent] \in Agents(dir[e])
      <4>1. CASE e = f
        BY <4>1, <1>4
      <4>2. CASE e \in S
        <5>1. dir[e].agent \in DOMAIN loaded /\ dir[e].agent # c.agent
          BY <4>2, <3>1, <3>3
        <5>2. loaded'[dir[e].agent] = loaded[dir[e].agent]
          BY <1>4, <5>1
        <5> QED
          BY <3>1, <4>2, <5>2
      <4> QED
        BY <4>1, <4>2
    <3>7. \A d, e \in T : dir[d].agent = dir[e].agent => d = e
      BY <3>1, <3>3
    <3>8. LoadedFrom(Present \ toRead)'
      <4> HIDE DEF T
      <4> QED
        BY <1>1, <3>2, <3>4, <3>5, <3>6, <3>7, FilesStay DEF LoadedFrom
    <3>9. Loading'
      BY <1>1, <1>4, <3>1, <3>8, FilesStay DEF Loading
    <3> QED
      BY <1>1, <1>4, <3>1, <3>9, FilesStay DEF Stage
  <2> QED
    BY <1>1, <2>1, <2>2, StageSuffices
<1> QED
  BY <1>1, <1>3, <1>4 DEF LoadFile

LEMMA HashFileRepeats ==
    ASSUME RepeatInv, NEW f \in Files, HashFile(f)
    PROVE  RepeatInv'
<1> DEFINE S == Present \ toRead
           T == S \cup {f}
<1>1. /\ UNCHANGED files /\ UNCHANGED <<files, previous, edited>> /\ phase = "hash"
      /\ f \in toRead /\ \A e \in toRead : f <= e
  BY DEF HashFile, NextToHash, history
<1>2. ~edited => fine /\ Hashing
  BY <1>1 DEF RepeatInv, Stage
<1>3. CASE dir[f] = NoFile /\ Refuse
  <2>1. edited
    BY <1>1, <1>2, <1>3 DEF Hashing, Present
  <2> QED
    BY <1>1, <1>3, <2>1, RefusedRightly
<1>4. CASE /\ dir[f] # NoFile /\ hashed' = Append(hashed, dir[f])
           /\ toRead' = toRead \ {f} /\ UNCHANGED <<phase, loaded, default, read>>
  <2>1. Clean'
    BY <1>1, <1>4, FilesStay DEF RepeatInv, Clean, Phases
  <2>2. ASSUME ~edited
        PROVE  Stage'
    <3>1. /\ hasDir /\ fine /\ Present # {} /\ toRead \subseteq Present /\ LoadedFrom(Present)
          /\ InOrder(hashed, S) /\ \A d \in S, e \in toRead : d < e
      BY <1>2, <2>2 DEF Hashing
    <3>2. (Present \ toRead)' = T /\ f \in Present \ S /\ Present \ S = toRead
      BY <1>1, <1>4, <3>1, FilesStay
    <3>3. InOrder(Append(hashed, dir[f]), T)
      <4>1. dir \in [Files -> Contents \cup {Garbage, NoFile}]
        BY DEF RepeatInv, Clean
      <4>2. \A e \in S : e < f
        BY <1>1, <3>1
      <4>3. \A e \in Present \ S : f <= e
        BY <1>1, <3>2
      <4> QED
        BY <3>1, <3>2, <4>1, <4>2, <4>3, NextPlace
    <3>4. InOrder(hashed, Present \ toRead)'
      BY <1>1, <1>4, <3>2, <3>3, OrderStays
    <3>5. LoadedFrom(Present)'
      BY <1>1, <1>4, <3>1, LoadedStays
    <3>6. ASSUME NEW d \in T, NEW e \in toRead \ {f}
          PROVE  d < e
      <4>1. d \in Nat /\ e \in Nat /\ f \in Nat
        BY <3>1, <3>2, <3>6, PresentFinite
      <4>2. CASE d \in S
        BY <3>1, <4>2
      <4>3. CASE d = f
        BY <1>1, <3>6, <4>1, <4>3
      <4> QED
        BY <4>2, <4>3
    <3>7. \A d \in (Present \ toRead)', e \in toRead' : d < e
      BY <1>4, <3>2, <3>6
    <3>8. Hashing'
      BY <1>1, <1>4, <3>1, <3>4, <3>5, <3>7, FilesStay DEF Hashing
    <3> QED
      BY <1>1, <1>4, <3>1, <3>8, FilesStay DEF Stage
  <2> QED
    BY <1>1, <2>1, <2>2, StageSuffices
<1> QED
  BY <1>3, <1>4 DEF HashFile

LEMMA CheckAgentsRepeats ==
    ASSUME RepeatInv, CheckAgents
    PROVE  RepeatInv'
<1>1. UNCHANGED files /\ UNCHANGED <<files, previous, edited>> /\ phase = "hash" /\ toRead = {}
  BY DEF CheckAgents, history
<1>2. ASSUME ~edited
      PROVE  /\ fine /\ hasDir /\ Present # {} /\ LoadedFrom(Present) /\ InOrder(hashed, Present)
             /\ DomainsOf(loaded) = AllDomains
  <2>1. fine /\ Hashing
    BY <1>1, <1>2 DEF RepeatInv, Stage
  <2>2. Present \ toRead = Present
    BY <1>1
  <2> QED
    BY <2>1, <2>2, DomainsOfDir DEF Hashing
<1>3. CASE ~(DomainsOf(loaded) \subseteq Range(Mapping)) /\ Refuse
  <2>1. ~edited => ~Serves
    BY <1>2, <1>3 DEF Serves
  <2> QED
    BY <1>1, <1>3, <2>1, RefusedRightly
<1>4. CASE /\ DomainsOf(loaded) \subseteq Range(Mapping) /\ phase' = "check"
           /\ UNCHANGED <<toRead, loaded, default, hashed, read>>
  <2>1. Clean'
    BY <1>1, <1>4, FilesStay DEF RepeatInv, Clean, Phases
  <2>2. ASSUME ~edited
        PROVE  Stage'
    <3>1. LoadedFrom(Present)' /\ InOrder(hashed, Present)'
      BY <1>1, <1>2, <1>4, <2>2, LoadedStays, OrderStays
    <3>2. DirLoaded'
      BY <1>1, <1>2, <1>4, <2>2, <3>1, FilesStay DEF DirLoaded
    <3> QED
      BY <1>1, <1>2, <1>4, <2>2, <3>2, FilesStay DEF Stage
  <2> QED
    BY <1>1, <2>1, <2>2, StageSuffices
<1> QED
  BY <1>3, <1>4 DEF CheckAgents

LEMMA CheckMappingRepeats ==
    ASSUME RepeatInv, CheckMapping
    PROVE  RepeatInv'
<1>1. UNCHANGED files /\ UNCHANGED <<files, previous, edited>> /\ phase = "check"
  BY DEF CheckMapping, history
<1>2. ASSUME ~edited
      PROVE  fine /\ (hasDir => DirLoaded) /\ (~hasDir => SectionLoaded)
  BY <1>1, <1>2 DEF RepeatInv, Stage
<1>3. CASE ~(Range(Mapping) \subseteq DomainsOf(loaded)) /\ Refuse
  <2>1. ASSUME ~edited
        PROVE  ~Serves
    <3>1. CASE hasDir
      BY <1>2, <1>3, <2>1, <3>1, DomainsOfDir DEF DirLoaded, Serves
    <3>2. CASE ~hasDir
      BY <1>2, <1>3, <2>1, <3>2, DomainsOfSection DEF Serves
    <3> QED
      BY <3>1, <3>2
  <2> QED
    BY <1>1, <1>3, <2>1, RefusedRightly
<1>4. CASE /\ Range(Mapping) \subseteq DomainsOf(loaded)
           /\ phase' = "serving"
           /\ default' \in Defaults(loaded)
           /\ UNCHANGED <<toRead, loaded, hashed, read>>
  <2>1. Clean'
    BY <1>1, <1>4, FilesStay DEF RepeatInv, Clean, Phases
  <2>2. ASSUME ~edited
        PROVE  Stage'
    <3>1. ASSUME hasDir
          PROVE  DirLoaded'
      <4>1. LoadedFrom(Present)' /\ InOrder(hashed, Present)'
        BY <1>1, <1>2, <1>4, <2>2, <3>1, LoadedStays, OrderStays DEF DirLoaded
      <4> QED
        BY <1>1, <1>2, <1>4, <2>2, <3>1, <4>1, FilesStay DEF DirLoaded
    <3>2. ASSUME ~hasDir
          PROVE  SectionLoaded'
      BY <1>1, <1>2, <1>4, <2>2, <3>2, FilesStay DEF SectionLoaded
    <3>3. DomainsOf(loaded)' = DomainsOf(loaded) /\ Defaults(loaded)' = Defaults(loaded)
      BY <1>4 DEF DomainsOf, Defaults
    <3> QED
      BY <1>1, <1>2, <1>4, <2>2, <3>1, <3>2, <3>3, FilesStay DEF Stage
  <2> QED
    BY <1>1, <2>1, <2>2, StageSuffices
<1> QED
  BY <1>3, <1>4 DEF CheckMapping

LEMMA StopRepeats ==
    ASSUME RepeatInv, Stop
    PROVE  RepeatInv'
<1>1. UNCHANGED files /\ edited' = edited /\ Ends("off") /\ phase \in {"serving", "refused"}
      /\ previous' = IF edited THEN Nothing ELSE Outcome
  BY DEF Stop
<1>2. Clean'
  BY <1>1, FilesStay DEF RepeatInv, Clean, Ends, Phases
<1>3. Stage'
  BY <1>1 DEF Stage, Ends
<1>4. previous' # Nothing => ~edited' /\ Determined(previous)'
  <2> HAVE previous' # Nothing
  <2>1. ~edited /\ previous' = Outcome
    BY <1>1
  <2>2. Determined(Outcome)
    BY <1>1, <2>1, OutcomeServed, OutcomeRefused DEF RepeatInv
  <2> QED
    BY <1>1, <2>1, <2>2, PreviousStays
<1> QED
  BY <1>2, <1>3, <1>4 DEF RepeatInv

LEMMA EditRepeats ==
    ASSUME RepeatInv, Edit
    PROVE  RepeatInv'
<1>1. edited' = TRUE /\ previous' = Nothing /\ UNCHANGED process
  BY DEF Edit
<1>2. dir' \in [Files -> Contents \cup {Garbage, NoFile}]
  BY DEF Edit, RepeatInv, Clean
<1>3. Clean'
  BY <1>1, <1>2 DEF RepeatInv, Clean, process
<1> QED
  BY <1>1, <1>3 DEF RepeatInv

LEMMA NothingRepeats ==
    ASSUME RepeatInv, UNCHANGED vars
    PROVE  RepeatInv'
<1>1. /\ UNCHANGED files /\ UNCHANGED <<files, previous, edited>> /\ UNCHANGED <<files, loaded, read>>
      /\ UNCHANGED <<phase, toRead, loaded, default, hashed, read>>
  BY DEF vars, process, history
<1>2. Clean'
  BY <1>1, FilesStay DEF RepeatInv, Clean
<1>3. ASSUME ~edited
      PROVE  Stage'
  <2>1. Stage
    BY <1>3 DEF RepeatInv
  <2>2. (Present \ toRead)' = Present \ toRead
    BY <1>1, FilesStay
  <2>3. ASSUME Loading PROVE Loading'
    BY <1>1, <2>2, <2>3, FilesStay, LoadedStays DEF Loading
  <2>4. ASSUME Hashing PROVE Hashing'
    <3>1. LoadedFrom(Present)' /\ InOrder(hashed, Present \ toRead)'
      BY <1>1, <2>2, <2>4, LoadedStays, OrderStays DEF Hashing
    <3> QED
      BY <1>1, <2>2, <2>4, <3>1, FilesStay DEF Hashing
  <2>5. ASSUME DirLoaded PROVE DirLoaded'
    <3>1. LoadedFrom(Present)' /\ InOrder(hashed, Present)'
      BY <1>1, <2>5, LoadedStays, OrderStays DEF DirLoaded
    <3> QED
      BY <1>1, <2>5, <3>1, FilesStay DEF DirLoaded
  <2>6. ASSUME SectionLoaded PROVE SectionLoaded'
    BY <1>1, <2>6, FilesStay DEF SectionLoaded
  <2>7. DomainsOf(loaded)' = DomainsOf(loaded) /\ Defaults(loaded)' = Defaults(loaded)
    BY <1>1 DEF DomainsOf, Defaults
  <2> QED
    BY <1>1, <2>1, <2>3, <2>4, <2>5, <2>6, <2>7, FilesStay DEF Stage
<1> QED
  BY <1>1, <1>2, <1>3, StageSuffices

LEMMA InitRepeats == Init => RepeatInv
<1> SUFFICES ASSUME Init PROVE RepeatInv
  OBVIOUS
<1>1. dir \in [Files -> Contents \cup {Garbage, NoFile}]
  BY DEF Init
<1>2. Clean
  BY <1>1 DEF Init, Clean, Phases
<1>3. Stage
  BY DEF Init, Stage
<1> QED
  BY <1>2, <1>3 DEF Init, RepeatInv

LEMMA RepeatPreserved == RepeatInv /\ [Next]_vars => RepeatInv'
BY StartRepeats, ListRepeats, ListAgainRepeats, LoadFileRepeats, HashFileRepeats,
   CheckAgentsRepeats, CheckMappingRepeats, StopRepeats, EditRepeats, NothingRepeats DEF Next

\* Files that nobody touched make the same daemon again: what can be seen of it is a
\* function of the files, but for keys that collide.
THEOREM Repeatable == Spec => []BootIsRepeatable
<1>1. ASSUME RepeatInv, phase \in {"serving", "refused"}, previous # Nothing
      PROVE  /\ Outcome.verdict = previous.verdict /\ Outcome.default = previous.default
             /\ Outcome.hash = previous.hash
             /\ Outcome.manifests = previous.manifests \/ Ambiguous
  <2>1. Clean /\ Stage /\ Determined(previous)
    BY <1>1 DEF RepeatInv
  <2>2. Determined(Outcome)
    BY <1>1, <2>1, OutcomeServed, OutcomeRefused
  <2>3. ASSUME Serves, TwoWays
        PROVE  Ambiguous
    <3>1. phase = "serving"
      BY <1>1, <2>1, <2>3, OutcomeRefused
    <3>2. CASE hasDir
      <4>1. LoadedFrom(Present)
        BY <2>1, <3>1, <3>2 DEF Stage, DirLoaded
      <4> QED
        BY <2>3, <3>2, <4>1 DEF LoadedFrom, TwoWays, Ambiguous
    <3>3. CASE ~hasDir
      BY <2>3, <3>3 DEF TwoWays, Ambiguous, Serves, ValidSection
    <3> QED
      BY <3>2, <3>3
  <2> QED
    BY <2>1, <2>2, <2>3, FilesDetermine
<1>2. RepeatInv => BootIsRepeatable
  BY <1>1 DEF BootIsRepeatable
<1> QED
  BY <1>2, InitRepeats, RepeatPreserved, PTL DEF Spec

\* The hash of a daemon that serves is of the contents its agents were made of, each
\* in the place of its path: the second reading saw what the first one saw.
THEOREM Attested == Spec => []HashAttests
<1>1. ASSUME RepeatInv, phase = "serving", hasDir, ~edited
      PROVE  /\ Len(hashed) = Cardinality(DOMAIN read)
             /\ \A f \in DOMAIN read : hashed[Place(f, DOMAIN read)] = read[f]
  <2>1. LoadedFrom(Present) /\ InOrder(hashed, Present)
    BY <1>1 DEF RepeatInv, Stage, DirLoaded
  <2>2. DOMAIN read = Present /\ \A f \in Present : read[f] = dir[f]
    BY <2>1 DEF LoadedFrom
  <2> QED
    BY <2>1, <2>2 DEF InOrder
<1>2. RepeatInv => HashAttests
  BY <1>1 DEF HashAttests
<1> QED
  BY <1>2, InitRepeats, RepeatPreserved, PTL DEF Spec
================================================================================
