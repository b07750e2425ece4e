--------------------------------- MODULE Boot ---------------------------------
(***************************************************************************)
(* The start of the daemon: AmaConfig::load, load_agent_configs and        *)
(* AgentConfig::from_toml_str of safa-core/src/config.rs, up to the state  *)
(* that AppState::new builds; with an operator who edits the files, also   *)
(* while they are read, and who starts the daemon again.                   *)
(*                                                                         *)
(* A file of agents/ has one agent; it is read twice, to be parsed and to  *)
(* be hashed.  Its hash is its contents here, and what a file spells       *)
(* wrongly (syntax, agent_id) makes it Garbage.  Agents' manifests         *)
(* (safa-core/src/manifest.rs) are what the boot shows of them.            *)
(***************************************************************************)
EXTENDS Naturals, FiniteSets, SequencesExt

CONSTANTS
    Files,         \* names of agents/*.toml, numbers in the order of their paths
    Contents,      \* of such a file: [agent, capacity, rate, domains, secret]
    Garbage,       \* contents that do not parse
    NoFile,
    Sections,      \* what the [slime] section of config.toml may say, likewise
    DomainOf,      \* DomainOf[k]: domain key k of a file with dots for underscores
    Mapping,       \* domains.toml: Mapping[action] is a domain
    EnvSecret,     \* EnvSecret[agent]: SAFA_AGENT_SECRET_<AGENT_ID>, "none" if unset
    DefaultAgent,
    MaxStarts,     \* bound on the starts (model checking only)
    MaxEdits       \* bound on the edits (model checking only)

ASSUME BootAssumption ==
    /\ Files \subseteq Nat /\ IsFiniteSet(Files)
    /\ NoFile \notin Contents \cup Sections \cup {Garbage}
    /\ MaxStarts \in Nat /\ MaxEdits \in Nat

VARIABLES
    fine,      \* the files outside agents/, the workspace and the binaries are in order
    hasDir,    \* agents/ is a directory
    dir,       \* dir[f]: its files
    slime,     \* the [slime] section
    phase,
    toRead,    \* the files listed and not yet read
    loaded,    \* agent_configs
    default,   \* default_agent_id
    hashed,    \* agent_hashes
    read,      \* history: read[f]: contents that f was parsed from
    edited,    \* history: a file was edited since the start
    previous,  \* history: the outcome of the start before on these very files
    starts,
    edits

files == <<fine, hasDir, dir, slime>>
process == <<phase, toRead, loaded, default, hashed, read>>
history == <<edited, previous, starts, edits>>
vars == <<files, process, history>>

Phases == {"off", "list", "load", "hash", "check", "serving", "refused"}

Nothing == [x \in {} |-> x]

-------------------------------------------------------------------------------
(* One file: from_toml_str *)

\* Mutant: the magnitude is not compared with the capacity.
PositivePolicy(c, k) == c.domains[k].enabled => c.domains[k].max > 0

\* An enabled domain's limit is positive and within the agent's capacity.
PolicyFits(c, k) ==
    c.domains[k].enabled => c.domains[k].max \in 1..c.capacity

\* The environment comes before the file, unless it is empty.
Secret(c) == IF EnvSecret[c.agent] \in {"none", "empty"} THEN c.secret ELSE EnvSecret[c.agent]

Valid(c) ==
    /\ c # Garbage
    /\ c.capacity > 0
    /\ c.rate > 0
    /\ \A k \in DOMAIN c.domains : PolicyFits(c, k)
    /\ Secret(c) \notin {"empty", "short", "placeholder"}

\* The policies by domain.  Keys that name one domain meet in the order of a hash
\* map, and the last of them stays.
Policies(c) ==
    {p \in [{DomainOf[k] : k \in DOMAIN c.domains} -> {c.domains[k] : k \in DOMAIN c.domains}] :
        \A d \in DOMAIN p : \E k \in DOMAIN c.domains : DomainOf[k] = d /\ p[d] = c.domains[k]}

Agents(c) ==
    {[capacity |-> c.capacity, rate |-> c.rate, policies |-> p, secret |-> Secret(c)] :
        p \in Policies(c)}

\* The [slime] section has no disabled domain without a limit, and some domain.
ValidSection(c) ==
    /\ c # NoFile
    /\ c.capacity > 0
    /\ DOMAIN c.domains # {}
    /\ \A k \in DOMAIN c.domains : c.domains[k].max \in 1..c.capacity

\* The agent made of it: 60 requests a minute, and no secret.
Synthesized(c) ==
    {[capacity |-> c.capacity, rate |-> 60, policies |-> p, secret |-> "none"] : p \in Policies(c)}

-------------------------------------------------------------------------------
(* All of them: load *)

Present == {f \in Files : dir[f] # NoFile}

DomainsOf(agents) == UNION {DOMAIN agents[a].policies : a \in DOMAIN agents}

\* Mutant: with several agents, one of them is the default.
AnyDefault(agents) == DOMAIN agents

\* A request may leave its agent out only if there is just one.
Defaults(agents) == IF Cardinality(DOMAIN agents) = 1 THEN DOMAIN agents ELSE {"none"}

Init ==
    /\ fine \in BOOLEAN
    /\ \/ /\ hasDir = TRUE
          /\ dir \in [Files -> Contents \cup {Garbage, NoFile}]
          /\ slime = NoFile
       \/ /\ hasDir = FALSE
          /\ dir = [f \in Files |-> NoFile]
          /\ slime \in Sections \cup {NoFile}
    /\ phase = "off"
    /\ toRead = {}
    /\ loaded = Nothing
    /\ default = "none"
    /\ hashed = <<>>
    /\ read = Nothing
    /\ edited = FALSE
    /\ previous = Nothing
    /\ starts = 0
    /\ edits = 0

Ends(p) ==
    /\ phase' = p
    /\ toRead' = {}
    /\ loaded' = Nothing
    /\ default' = "none"
    /\ hashed' = <<>>
    /\ read' = Nothing

Refuse == Ends("refused")

\* The four files are read and checked; what follows depends on agents/.
Start ==
    /\ phase = "off"
    /\ starts < MaxStarts
    /\ starts' = starts + 1
    /\ edited' = FALSE
    /\ \/ ~fine /\ Refuse
       \/ fine /\ hasDir /\ phase' = "list" /\ UNCHANGED <<toRead, loaded, default, hashed, read>>
       \/ /\ fine /\ ~hasDir /\ ValidSection(slime)
          /\ phase' = "check"
          /\ \E g \in Synthesized(slime) : loaded' = [a \in {DefaultAgent} |-> g]
          /\ UNCHANGED <<toRead, default, hashed, read>>
       \/ fine /\ ~hasDir /\ ~ValidSection(slime) /\ Refuse
    /\ UNCHANGED <<files, previous, edits>>

List ==
    /\ phase = "list"
    /\ \/ Present = {} /\ Refuse
       \/ /\ Present # {}
          /\ phase' = "load"
          /\ toRead' = Present
          /\ UNCHANGED <<loaded, default, hashed, read>>
    /\ UNCHANGED <<files, history>>

\* The files come in the order of the directory, which is none.
LoadFile(f) ==
    LET c == dir[f]
        Accepted == c # NoFile /\ Valid(c) /\ c.agent \notin DOMAIN loaded
    IN  /\ phase = "load"
        /\ f \in toRead
        /\ \/ ~Accepted /\ Refuse
           \/ /\ Accepted
              /\ \E g \in Agents(c) :
                    loaded' = [a \in DOMAIN loaded \cup {c.agent} |->
                                  IF a = c.agent THEN g ELSE loaded[a]]
              /\ read' = [e \in DOMAIN read \cup {f} |-> IF e = f THEN c ELSE read[e]]
              /\ toRead' = toRead \ {f}
              /\ UNCHANGED <<phase, default, hashed>>
        /\ UNCHANGED <<files, history>>

\* The directory is listed again ...
ListAgain ==
    /\ phase = "load"
    /\ toRead = {}
    /\ phase' = "hash"
    /\ toRead' = Present
    /\ UNCHANGED <<files, loaded, default, hashed, read, history>>

\* Mutant: the order of the directory.
NextAny == toRead

\* ... and read again, in the order of the paths.
NextToHash == {f \in toRead : \A e \in toRead : f <= e}

HashFile(f) ==
    /\ phase = "hash"
    /\ f \in NextToHash
    /\ \/ dir[f] = NoFile /\ Refuse
       \/ /\ dir[f] # NoFile
          /\ hashed' = Append(hashed, dir[f])
          /\ toRead' = toRead \ {f}
          /\ UNCHANGED <<phase, loaded, default, read>>
    /\ UNCHANGED <<files, history>>

\* Every domain of an agent must be in domains.toml, if agents/ is used ...
CheckAgents ==
    /\ phase = "hash"
    /\ toRead = {}
    /\ \/ DomainsOf(loaded) \subseteq Range(Mapping) /\ phase' = "check"
          /\ UNCHANGED <<toRead, loaded, default, hashed, read>>
       \/ ~(DomainsOf(loaded) \subseteq Range(Mapping)) /\ Refuse
    /\ UNCHANGED <<files, history>>

\* ... and every domain there must be some agent's.
CheckMapping ==
    /\ phase = "check"
    /\ \/ /\ Range(Mapping) \subseteq DomainsOf(loaded)
          /\ phase' = "serving"
          /\ default' \in Defaults(loaded)
          /\ UNCHANGED <<toRead, loaded, hashed, read>>
       \/ ~(Range(Mapping) \subseteq DomainsOf(loaded)) /\ Refuse
    /\ UNCHANGED <<files, history>>

\* from_agent_config: what is published of an agent, which its secret is not.
Manifest(a) ==
    [capacity |-> loaded[a].capacity, rate |-> loaded[a].rate,
     domains |-> loaded[a].policies, identityBound |-> loaded[a].secret # "none"]

Outcome ==
    [verdict |-> phase, default |-> default, hash |-> hashed,
     manifests |-> [a \in DOMAIN loaded |-> Manifest(a)]]

Stop ==
    /\ phase \in {"serving", "refused"}
    /\ previous' = IF edited THEN Nothing ELSE Outcome
    /\ Ends("off")
    /\ UNCHANGED <<files, edited, starts, edits>>

\* The operator writes or deletes a file of agents/, or something outside it.
Edit ==
    /\ edits < MaxEdits
    /\ edits' = edits + 1
    /\ edited' = TRUE
    /\ previous' = Nothing
    /\ \/ /\ hasDir = TRUE
          /\ \E f \in Files, c \in Contents \cup {Garbage, NoFile} : dir' = [dir EXCEPT ![f] = c]
          /\ UNCHANGED fine
       \/ fine' = ~fine /\ UNCHANGED dir
    /\ UNCHANGED <<hasDir, slime, process, starts>>

Next ==
    \/ Start \/ List \/ ListAgain \/ CheckAgents \/ CheckMapping \/ Stop \/ Edit
    \/ \E f \in Files : LoadFile(f) \/ HashFile(f)

Spec == Init /\ [][Next]_vars

-------------------------------------------------------------------------------
(* Properties *)

\* Two keys of one file name the same domain.
Collides(c) == \E j, k \in DOMAIN c.domains : j # k /\ DomainOf[j] = DomainOf[k]

\* The policies that are served depend on the order of a hash map.
Ambiguous == \/ \E f \in DOMAIN read : Collides(read[f])
             \/ ~hasDir /\ slime # NoFile /\ Collides(slime)

\* Files that nobody touched give the same daemon again, in whichever order they
\* are read: the verdict, the default agent and the hash; and the same manifests,
\* unless keys of a file or of the [slime] section collide.
BootIsRepeatable ==
    phase \in {"serving", "refused"} /\ previous # Nothing =>
        /\ Outcome.verdict = previous.verdict
        /\ Outcome.default = previous.default
        /\ Outcome.hash = previous.hash
        /\ Outcome.manifests = previous.manifests \/ Ambiguous

\* The place of f among the files of S, in the order of their paths.
Place(f, S) == Cardinality({e \in S : e <= f})

\* The hash attests the configuration that is served: if no file was edited since
\* the start, it is of the contents that the agents were made of, in path order.
HashAttests ==
    phase = "serving" /\ hasDir /\ ~edited =>
        /\ Len(hashed) = Cardinality(DOMAIN read)
        /\ \A f \in DOMAIN read : hashed[Place(f, DOMAIN read)] = read[f]

\* A daemon that serves maps no action to a domain without a policy (and so without a
\* counter), has no agent's policy for a domain without an action, and no enabled limit
\* that the agent's budget could not cover, whichever of its colliding keys stays.
\* Whether a mapped domain has a policy that is enabled, no test of a start asks.
EveryActionIsGoverned ==
    phase = "serving" =>
        /\ Range(Mapping) \subseteq DomainsOf(loaded)
        /\ hasDir => DomainsOf(loaded) \subseteq Range(Mapping)
        /\ \A a \in DOMAIN loaded : \A d \in DOMAIN loaded[a].policies :
              loaded[a].policies[d].enabled => loaded[a].policies[d].max \in 1..loaded[a].capacity
===============================================================================
