------------------------------- MODULE Config -------------------------------
(***************************************************************************)
(* internal/config/config.go: Load reads a plain configuration file line   *)
(* by line and validates the result; AgentAllowedTokens and                *)
(* ResolveNFSMounts answer questions about it.                             *)
(*                                                                         *)
(* Texts (names, tokens, hosts, paths) are opaque except for what          *)
(* strings.TrimSpace makes of them.  A line is a section header or an      *)
(* entry, already split and unquoted; blank lines and comments change      *)
(* nothing and are left out, as are the host and port, which nothing here  *)
(* reads.                                                                  *)
(***************************************************************************)
EXTENDS Integers, SequencesExt

CONSTANTS
    Texts,     (* the texts that may occur                                 *)
    Empty,     (* the empty text                                           *)
    Trim,      (* Trim[x]: x without the space around it                   *)
    Lines,     (* the lines that a file may have                           *)
    MaxLines,  (* bound for TLC on their number                            *)
    AgentIDs,  (* the agents that are asked about                          *)
    NoName     (* no agent                                                 *)

ASSUME ConfigAssumption ==
    /\ Trim \in [Texts -> Texts]
    /\ Empty \in Texts /\ Trim[Empty] = Empty
    /\ \A x \in Texts : Trim[Trim[x]] = Trim[x]
    /\ \A l \in Lines : l.line \in {"section", "entry", "malformed"}
    /\ MaxLines \in Nat
    /\ AgentIDs \subseteq Texts

VARIABLES
    file,     (* the lines read so far                                     *)
    cfg,      (* the Config under construction                             *)
    section,  (* the section the parser is in                              *)
    phase,    (* "parse", "loaded", "rejected", "answered", "refused"      *)
    agent,    (* the agent asked about                                     *)
    tokens,   (* its tokens                                                *)
    mounts    (* the names of the servers it is to mount, in order         *)

vars == <<file, cfg, section, phase, agent, tokens, mounts>>

NoServer == [host |-> Empty, export |-> Empty, mount |-> Empty]
NoAgent  == [token |-> Empty, nfs |-> <<>>, pools |-> <<>>]
NoPool   == [token |-> Empty, agents |-> <<>>, nfs |-> <<>>]
Nothing  == [x \in {} |-> x]

Init ==
    /\ file = <<>>
    /\ cfg = [control |-> <<>>, servers |-> Nothing, agents |-> Nothing, pools |-> Nothing]
    /\ section = [kind |-> "root", name |-> Empty]
    /\ phase = "parse"
    /\ agent = NoName /\ tokens = {} /\ mounts = <<>>

-----------------------------------------------------------------------------
(* parsePlainConfig. *)

(* Mutated form of Opened: a section that comes back starts afresh. *)
OpenedAfresh(table, name, new) ==
    [n \in DOMAIN table \cup {name} |-> IF n = name THEN new ELSE table[n]]

(* Table with an entry for name, which it keeps if it has one. *)
Opened(table, name, new) ==
    [n \in DOMAIN table \cup {name} |-> IF n \in DOMAIN table THEN table[n] ELSE new]

Named(kind, name) == kind \in {"nfs", "agent", "pool"} /\ name # Empty

SectionOK(l) == (l.kind = "control" /\ l.name = Empty) \/ Named(l.kind, l.name)

EnterSection(l) ==
    /\ l.line = "section" /\ SectionOK(l)
    /\ section' = [kind |-> l.kind, name |-> l.name]
    /\ cfg' = CASE l.kind = "control" -> cfg
                [] l.kind = "nfs"   -> [cfg EXCEPT !.servers = Opened(@, l.name, NoServer)]
                [] l.kind = "agent" -> [cfg EXCEPT !.agents = Opened(@, l.name, NoAgent)]
                [] l.kind = "pool"  -> [cfg EXCEPT !.pools = Opened(@, l.name, NoPool)]
    /\ UNCHANGED phase

(* The keys of a section that hold one value, and those that hold a list. *)
Scalars(kind) == CASE kind = "nfs"   -> {"host", "export", "mount"}
                   [] kind \in {"agent", "pool"} -> {"token"}
                   [] OTHER          -> {}
Lists(kind)   == CASE kind = "agent" -> {"nfs", "pools"}
                   [] kind = "pool"  -> {"nfs", "agents"}
                   [] OTHER          -> {}

EntryOK(l) ==
    \/ section.kind = "control" /\ l.key = "token"
    \/ l.key \in Scalars(section.kind) \cup Lists(section.kind)

(* Record r with the entry l: the last value of a scalar counts. *)
With(r, l) ==
    [r EXCEPT ![l.key] = IF l.key \in Lists(section.kind) THEN Append(@, l.value) ELSE l.value]

SetEntry(l) ==
    /\ l.line = "entry" /\ EntryOK(l)
    /\ cfg' = CASE section.kind = "control" -> [cfg EXCEPT !.control = Append(@, l.value)]
                [] section.kind = "nfs"   -> [cfg EXCEPT !.servers[section.name] = With(@, l)]
                [] section.kind = "agent" -> [cfg EXCEPT !.agents[section.name] = With(@, l)]
                [] section.kind = "pool"  -> [cfg EXCEPT !.pools[section.name] = With(@, l)]
    /\ UNCHANGED <<section, phase>>

(* Anything else is an error, and Load returns no configuration. *)
Reject(l) ==
    /\ \/ l.line = "malformed"
       \/ l.line = "section" /\ ~SectionOK(l)
       \/ l.line = "entry" /\ ~EntryOK(l)
    /\ phase' = "rejected"
    /\ UNCHANGED <<cfg, section>>

ReadLine ==
    /\ phase = "parse"
    /\ Len(file) < MaxLines
    /\ \E l \in Lines :
          /\ EnterSection(l) \/ SetEntry(l) \/ Reject(l)
          /\ file' = Append(file, l)
    /\ UNCHANGED <<agent, tokens, mounts>>

-----------------------------------------------------------------------------
(* Validate *)
Blank(x) == Trim[x] = Empty

(* Mutated form of Complete: the mount point is forgotten. *)
CompleteSource(server) == ~Blank(server.host) /\ ~Blank(server.export)

Complete(server) == ~Blank(server.host) /\ ~Blank(server.export) /\ ~Blank(server.mount)

Valid ==
    /\ \A i \in DOMAIN cfg.control : ~Blank(cfg.control[i])
    /\ \A n \in DOMAIN cfg.servers : Complete(cfg.servers[n])

EndOfFile ==
    /\ phase = "parse"
    /\ phase' = IF Valid THEN "loaded" ELSE "rejected"
    /\ UNCHANGED <<file, cfg, section, agent, tokens, mounts>>

-----------------------------------------------------------------------------
(* Questions about the configuration loaded. *)

AgentOf(a) == IF a \in DOMAIN cfg.agents THEN cfg.agents[a] ELSE NoAgent

(* The pools an agent names, as far as they exist. *)
Listed(a) == Range(AgentOf(a).pools) \cap DOMAIN cfg.pools

(* The pools that name the agent. *)
Joined(a) == {p \in DOMAIN cfg.pools : a \in Range(cfg.pools[p].agents)}

Trimmed(S) == {Trim[x] : x \in S} \ {Empty}

(* Mutated form of AllowedTokens: pools that name the agent are forgotten. *)
AllowedTokensNamed(a) ==
    Trimmed({AgentOf(a).token} \cup {cfg.pools[p].token : p \in Listed(a)})

AllowedTokens(a) ==
    Trimmed({AgentOf(a).token} \cup
            {cfg.pools[p].token : p \in Listed(a) \cup Joined(a)})

(* The servers of those pools in the list that are among S, in its order.  *)
ServersOf(pools, S) ==
    FlattenSeq([i \in DOMAIN pools |-> IF pools[i] \in S THEN cfg.pools[pools[i]].nfs ELSE <<>>])

(* The servers wanted, when the map iterates over the pools in that order: *)
(* those of the agent, of the pools it names, of the pools that name it.   *)
Wanted(a, order) ==
    AgentOf(a).nfs \o ServersOf(AgentOf(a).pools, DOMAIN cfg.pools) \o ServersOf(order, Joined(a))

Mountable(n) == n = Empty \/ (n \in DOMAIN cfg.servers /\ Complete(cfg.servers[n]))

(* Mutated form of AddServer: a server in two pools is mounted twice. *)
AddServerEach(added, name) ==
    IF Trim[name] = Empty THEN added ELSE Append(added, Trim[name])

AddServer(added, name) ==
    IF Trim[name] = Empty \/ Trim[name] \in Range(added) THEN added
    ELSE Append(added, Trim[name])

(* AgentAllowedTokens and ResolveNFSMounts for agent a. *)
Ask(a) ==
    /\ phase = "loaded"
    /\ agent' = a
    /\ tokens' = AllowedTokens(a)
    /\ \E order \in SetToSeqs(DOMAIN cfg.pools) :
          LET wanted == Wanted(a, order)
          IN  IF \A i \in DOMAIN wanted : Mountable(Trim[wanted[i]])
              THEN phase' = "answered" /\ mounts' = FoldLeft(AddServer, <<>>, wanted)
              ELSE phase' = "refused" /\ mounts' = <<>>
    /\ UNCHANGED <<file, cfg, section>>

Next == ReadLine \/ EndOfFile \/ \E a \in AgentIDs : Ask(a)

Spec == Init /\ [][Next]_vars

-----------------------------------------------------------------------------
(* Properties.  The reference is the file as its writer reads it: an entry *)
(* belongs to the last header before it, wherever that section began.      *)

Headers(i) == {j \in 1..i : file[j].line = "section"}

HeaderOf(i) == file[CHOOSE j \in Headers(i) : \A h \in Headers(i) : h <= j]

Entries(kind, name, key) ==
    {i \in DOMAIN file :
        /\ file[i].line = "entry" /\ file[i].key = key
        /\ Headers(i) # {}
        /\ HeaderOf(i).kind = kind /\ HeaderOf(i).name = name}

Values(kind, name, key) == {file[i].value : i \in Entries(kind, name, key)}

LastValue(kind, name, key) ==
    LET E == Entries(kind, name, key)
    IN  IF E = {} THEN Empty
        ELSE file[CHOOSE i \in E : \A j \in E : j <= i].value

Declared(kind) == {file[i].name : i \in {j \in DOMAIN file :
                     file[j].line = "section" /\ file[j].kind = kind}}

(* No line of a file that is loaded is lost or ends up under another name, *)
(* even when sections come in pieces that alternate: lists have all their  *)
(* values, scalars the last one.                                           *)
LinesKept ==
    phase \in {"parse", "loaded"} =>
        /\ DOMAIN cfg.servers = Declared("nfs")
        /\ DOMAIN cfg.agents = Declared("agent")
        /\ DOMAIN cfg.pools = Declared("pool")
        /\ Range(cfg.control) = Values("control", Empty, "token")
        /\ \A n \in Declared("nfs"), key \in {"host", "export", "mount"} :
              cfg.servers[n][key] = LastValue("nfs", n, key)
        /\ \A n \in Declared("agent") :
              /\ cfg.agents[n].token = LastValue("agent", n, "token")
              /\ Range(cfg.agents[n].nfs) = Values("agent", n, "nfs")
              /\ Range(cfg.agents[n].pools) = Values("agent", n, "pools")
        /\ \A n \in Declared("pool") :
              /\ cfg.pools[n].token = LastValue("pool", n, "token")
              /\ Range(cfg.pools[n].nfs) = Values("pool", n, "nfs")
              /\ Range(cfg.pools[n].agents) = Values("pool", n, "agents")

(* The pools of an agent, by the file: membership is declared on either    *)
(* side.                                                                   *)
Membership(a) ==
    {p \in Declared("pool") :
        p \in Values("agent", a, "pools") \/ a \in Values("pool", p, "agents")}

(* In whatever order the map of pools is iterated, an agent mounts every   *)
(* server that it or one of its pools names, each once, and its own before *)
(* those of its pools.                                                     *)
MountsExact ==
    phase = "answered" =>
        /\ IsInjective(mounts)
        /\ Range(mounts) =
              Trimmed(Values("agent", agent, "nfs") \cup
                      UNION {Values("pool", p, "nfs") : p \in Membership(agent)})
        /\ LET own == Trimmed(Values("agent", agent, "nfs"))
           IN  \A i, j \in DOMAIN mounts : mounts[j] \in own /\ i < j => mounts[i] \in own

(* An agent may use its own token and those of the pools it belongs to,    *)
(* and no blank one: an agent that the file does not give a token, nor     *)
(* puts in a pool, gets none.                                              *)
TokensExact ==
    phase \in {"answered", "refused"} =>
        tokens = Trimmed({LastValue("agent", agent, "token")} \cup
                         {LastValue("pool", p, "token") : p \in Membership(agent)})

(* A file is loaded only if every line of it is in order and, after the    *)
(* last line, every server has all its parts and no control token is       *)
(* blank: a part can be taken back by a later, blank entry.                *)
LoadedIsSound ==
    phase \in {"loaded", "answered", "refused"} =>
        /\ \A i \in DOMAIN file : file[i].line # "malformed"
        /\ \A x \in Values("control", Empty, "token") : ~Blank(x)
        /\ \A n \in Declared("nfs"), key \in {"host", "export", "mount"} :
              n # Empty /\ ~Blank(LastValue("nfs", n, key))
=============================================================================
