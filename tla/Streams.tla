------------------------------ MODULE Streams ------------------------------
(***************************************************************************)
(* The message stream of a provider: StreamReader skips what it cannot     *)
(* parse and holds back an error that came with a message                  *)
(* (platform/stream_reader.go), SpanEmittingStreamReader.CollectAll keeps  *)
(* a span per running tool and hook (span_emitting.go,                     *)
(* span_emitting_ext.go), and StreamNormalizer, told of every message,     *)
(* makes the events for the bus (stream_normalizer.go).                    *)
(*                                                                         *)
(* Of a message its type, tool ids and session count; the texts, usage and *)
(* cost that spans and events are given are left out.                      *)
(***************************************************************************)
EXTENDS Integers, Sequences, FiniteSets

CONSTANTS
  ToolIDs, AgentIDs,  \* tool_use ids; those of the tools Task and Agent
  HookIDs,            \* hook_id, or the hook's name if it has none
  MaxLines,           \* bound of the check: lines of the stream
  None                \* no error; a tool, not an agent, without an id

StreamsAssumption == None \notin {"EOF", "failed", "subagent_start", "subagent_end"}

IDs == ToolIDs \cup AgentIDs

(* The tool_use blocks of a message: at most two here.                     *)
Blocks == UNION {[1 .. n -> IDs \cup {None}] : n \in 0 .. 2}

Messages ==
  [type : {"assistant"}, tools : Blocks]
  \cup [type : {"tool_result"}, id : IDs \cup {None}]
  \cup [type : {"hook_started", "hook_response"}, id : HookIDs]
  \cup [type : {"result", "rate_limit_event"}]

VARIABLES
  lines,       \* history: lines read
  readErr,     \* the error that came with the last message
  outcome,     \* what CollectAll has returned: None, "EOF" or "failed"
  openSpans,   \* the keys of the map
  syntheticSeq,
  live,        \* history: spans started, less those ended or replaced
  subagents,   \* the tool ids of the normalizer's map
  event,       \* the last event it made
  balance      \* history: for each agent, its start events less its end events

vars == <<lines, readErr, outcome, openSpans, syntheticSeq, live, subagents, event, balance>>

SpanKeys ==
  {<<"tool", id>> : id \in IDs} \cup {<<"hook", h>> : h \in HookIDs}
  \cup {<<"synthetic", n>> : n \in 0 .. 2 * MaxLines}

TypeOK ==
  /\ lines \in 0 .. MaxLines
  /\ readErr \in {None, "EOF", "failed"} /\ outcome \in {None, "EOF", "failed"}
  /\ openSpans \subseteq SpanKeys
  /\ syntheticSeq \in 0 .. 2 * MaxLines
  /\ live \in Int
  /\ subagents \subseteq AgentIDs
  /\ balance \in [AgentIDs -> Int]

Init ==
  /\ lines = 0
  /\ readErr = None /\ outcome = None
  /\ openSpans = {} /\ syntheticSeq = 0 /\ live = 0
  /\ subagents = {} /\ event = None
  /\ balance = [a \in AgentIDs |-> 0]
---------------------------------------------------------------------------
(* The keys under which the spans of a message's tools are kept.           *)
ToolKeys(tools) ==
  LET unnamed(i) == Cardinality({j \in 1 .. i - 1 : tools[j] = None})
  IN  {IF tools[i] = None THEN <<"synthetic", syntheticSeq + unnamed(i)>>
       ELSE <<"tool", tools[i]>> : i \in DOMAIN tools}

(* A span of a key that is open already is lost without an end.            *)
Start(keys) ==
  /\ openSpans' = openSpans \cup keys
  /\ live' = live + Cardinality(keys \ openSpans)

End(keys) ==
  /\ openSpans' = openSpans \ keys
  /\ live' = live - Cardinality(keys \cap openSpans)

(* Mutant: the spans ended with the result stay in the map.                *)
ProcessMessageKeep(m) ==
  /\ syntheticSeq' = syntheticSeq +
       IF m.type = "assistant"
       THEN Cardinality({i \in DOMAIN m.tools : m.tools[i] = None}) ELSE 0
  /\ CASE m.type = "assistant" -> Start(ToolKeys(m.tools))
       [] m.type = "tool_result" -> End({<<"tool", m.id>>})
       [] m.type = "hook_started" -> Start({<<"hook", m.id>>})
       [] m.type = "hook_response" -> End({<<"hook", m.id>>})
       [] m.type = "result" -> live' = live - Cardinality(openSpans) /\ UNCHANGED openSpans
       [] OTHER -> UNCHANGED <<openSpans, live>>

(* The spans after a message; all end with the result.                     *)
ProcessMessage(m) ==
  /\ syntheticSeq' = syntheticSeq +
       IF m.type = "assistant"
       THEN Cardinality({i \in DOMAIN m.tools : m.tools[i] = None}) ELSE 0
  /\ CASE m.type = "assistant" -> Start(ToolKeys(m.tools))
       [] m.type = "tool_result" -> End({<<"tool", m.id>>})
       [] m.type = "hook_started" -> Start({<<"hook", m.id>>})
       [] m.type = "hook_response" -> End({<<"hook", m.id>>})
       [] m.type = "result" -> End(openSpans)
       [] OTHER -> UNCHANGED <<openSpans, live>>

(* The event of a message; only its first tool is looked at.               *)
EventOf(m) ==
  CASE m.type = "assistant" /\ m.tools = <<>> -> "assistant_text"
    [] m.type = "assistant" /\ m.tools # <<>> ->
         IF Head(m.tools) \in AgentIDs THEN "subagent_start" ELSE "tool_use_start"
    [] m.type = "tool_result" ->
         IF m.id \in subagents THEN "subagent_end" ELSE "tool_result"
    [] m.type = "result" -> None
    [] OTHER -> m.type

Normalize(m) ==
  LET agent == IF m.type = "assistant" THEN Head(m.tools) ELSE m.id
  IN  /\ event' = EventOf(m)
      /\ CASE event' = "subagent_start" ->
                /\ subagents' = subagents \cup {agent}
                /\ balance' = [balance EXCEPT ![agent] = @ + 1]
           [] event' = "subagent_end" ->
                /\ subagents' = subagents \ {agent}
                /\ balance' = [balance EXCEPT ![agent] = @ - 1]
           [] OTHER -> UNCHANGED <<subagents, balance>>

(* CollectAll returns, and its caller asks for the last event, SessionEnd. *)
Return(err) ==
  /\ outcome' = err
  /\ End(openSpans)
  /\ event' = "session_end"
  /\ UNCHANGED <<syntheticSeq, subagents, balance>>

ReadErrors == {None, "EOF", "failed"}

(* Next reads a line that is a message; an error with it is for later.     *)
Message(m, err) ==
  /\ outcome = None /\ readErr = None
  /\ lines < MaxLines
  /\ lines' = lines + 1
  /\ readErr' = err
  /\ ProcessMessage(m)
  /\ Normalize(m)
  /\ UNCHANGED outcome

(* It reads an empty or invalid line, or no line.                          *)
Skip(err) ==
  /\ outcome = None /\ readErr = None
  /\ lines < MaxLines
  /\ lines' = lines + 1
  /\ IF err = None
     THEN UNCHANGED <<outcome, openSpans, syntheticSeq, live, subagents, event, balance>>
     ELSE Return(err)
  /\ UNCHANGED readErr

(* The error held back is returned.                                        *)
PendingError ==
  /\ outcome = None /\ readErr # None
  /\ Return(readErr)
  /\ readErr' = None
  /\ UNCHANGED lines

Next ==
  \/ \E err \in ReadErrors : Skip(err) \/ \E m \in Messages : Message(m, err)
  \/ PendingError

Spec == Init /\ [][Next]_vars
---------------------------------------------------------------------------
(* Every span is ended once, with its tool, its hook, the result or the    *)
(* end of the stream, unless another of its key replaced it; none is open  *)
(* when the stream is over, however it ended.  An agent is shown to end no *)
(* more often than it was shown to start.                                  *)
SpansAreEnded ==
  /\ live = Cardinality(openSpans)
  /\ outcome # None => openSpans = {}
  /\ \A a \in AgentIDs : balance[a] >= 0 /\ (balance[a] = 0 => a \notin subagents)
===========================================================================
