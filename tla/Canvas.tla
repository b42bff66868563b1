------------------------------- MODULE Canvas -------------------------------
(***************************************************************************)
(* The text of a rival contract: rendered from a wave                      *)
(* (harness/filter/rival_contract_render.go), edited by whoever handles    *)
(* the mail, parsed (rival_contract.go) and exported as a REASONS canvas   *)
(* in Markdown (usecase/rival_export.go) and JSON (rival_export_json.go).  *)
(*                                                                         *)
(* A text is a sequence of lines without the blank ones.  A line is a      *)
(* title, a heading, a bullet or prose; its label is the prefix the code   *)
(* looks for ("Command:", "Do not", an evidence key, "" for none), its     *)
(* text the rest, as a sequence of words.                                  *)
(***************************************************************************)
EXTENDS Naturals, Sequences, FiniteSets

CONSTANTS
  Inputs,     \* waves to render
  EditLines,  \* lines an editor may insert
  MaxEdits

VARIABLES
  source,  \* the wave the contract was rendered from
  body,   \* the lines of the mail
  edits

vars == <<source, body, edits>>

Line(kind, label, text) == [kind |-> kind, label |-> label, text |-> text]
Title(text) == Line("title", "", text)
Heading(name) == Line("heading", name, <<>>)
Bullet(label, text) == Line("bullet", label, text)
Prose(label, text) == Line("prose", label, text)

IsLine(l) ==
  /\ l.kind \in {"title", "heading", "bullet", "prose"}
  /\ l.kind = "title" => l.label = ""

IsList(s) == Len(s) \in Nat /\ s = [i \in 1 .. Len(s) |-> s[i]]

AreLines(s) == IsList(s) /\ \A i \in DOMAIN s : IsLine(s[i])

(* What a wave says is lists of lines, of steps and of actions.            *)
CanvasAssumption ==
  /\ \A in \in Inputs : /\ AreLines(in.description) /\ AreLines(in.decisions)
                       /\ AreLines(in.boundaries) /\ AreLines(in.evidence)
                       /\ IsList(in.steps) /\ IsList(in.applied)
  /\ \A l \in EditLines : IsLine(l)

Headings == <<"Intent", "Domain", "Decisions", "Steps", "Boundaries", "Evidence">>
Sections == {Headings[i] : i \in DOMAIN Headings}

Largest(S) == CHOOSE i \in S : \A j \in S : j <= i
Smallest(S) == CHOOSE i \in S : \A j \in S : i <= j

(* The sequences of s one after the other.                                 *)
Joined(s) ==
  LET upTo[i \in 0 .. Len(s)] == IF i = 0 THEN <<>> ELSE upTo[i - 1] \o s[i]
  IN  upTo[Len(s)]

(* The elements of s at the places in I; those that pass a test.           *)
Those(s, I) == Joined([i \in DOMAIN s |-> IF i \in I THEN <<s[i]>> ELSE <<>>])

Where(s, Test(_)) == Those(s, {i \in DOMAIN s : Test(s[i])})

(* A line for each element of s that has a text.                           *)
LinesOf(s, F(_)) == Joined([i \in DOMAIN s |-> IF s[i] = <<>> THEN <<>> ELSE <<F(s[i])>>])

Or(text, default) == IF text = <<>> THEN default ELSE text
---------------------------------------------------------------------------
(* RenderRivalContract: an input has a title, a cluster and issues, each   *)
(* perhaps missing (<<>>), lines of description and decisions, steps with  *)
(* description, issue, detail and type, actions already applied, further   *)
(* boundaries and evidence.                                                *)
TitleOrDefault(in) == Or(in.title, <<"Untitled", "Wave">>)

RenderIntentSection(in) ==
  in.description \o <<Bullet("Deliver", TitleOrDefault(in)), Bullet("Success", <<"executed">>)>>

RenderDomainSection(in) ==
  LET Cluster(t) == Bullet("Cluster:", t)
      Issues(t)  == Bullet("Issues:", t)
  IN  LinesOf(<<in.cluster>>, Cluster) \o LinesOf(<<in.issues>>, Issues)
      \o <<Bullet("Command:", <<"execute">>), Bullet("Event:", <<"specified">>)>>

RenderDecisionsSection(in) == Or(in.decisions, <<Bullet("", <<"No", "decision">>)>>)

RenderStep(a) ==
  LET Issue(t)  == Bullet("Issue:", t)
      Detail(t) == Bullet("Detail:", t)
      Type(t)   == Bullet("Action type:", t)
  IN  <<Prose("", Or(a.description, <<"Implementation", "step">>))>>
      \o LinesOf(<<a.issue>>, Issue) \o LinesOf(<<a.detail>>, Detail) \o LinesOf(<<a.type>>, Type)

RenderStepsSection(in) ==
  IF in.steps = <<>> THEN <<Bullet("", <<"no", "steps">>)>>
  ELSE Joined([i \in DOMAIN in.steps |-> RenderStep(in.steps[i])])

RenderBoundariesSection(in) ==
  LET Applied(a) == Bullet("Already applied", Or(a, <<"no", "description">>))
  IN  [i \in DOMAIN in.applied |-> Applied(in.applied[i])] \o in.boundaries
      \o <<Bullet("Do not", <<"modify">>), Bullet("Do not", <<"expand">>)>>

RenderEvidenceSection(in) ==
  LET Acceptance(t) == Bullet("Acceptance:", t)
  IN  <<Bullet("test", <<"just", "test">>), Bullet("lint", <<"just", "lint">>)>>
      \o LinesOf([i \in DOMAIN in.steps |-> in.steps[i].description], Acceptance)
      \o in.evidence

RenderedSection(in, name) ==
  CASE name = "Intent"     -> RenderIntentSection(in)
    [] name = "Domain"     -> RenderDomainSection(in)
    [] name = "Decisions"  -> RenderDecisionsSection(in)
    [] name = "Steps"      -> RenderStepsSection(in)
    [] name = "Boundaries" -> RenderBoundariesSection(in)
    [] name = "Evidence"   -> RenderEvidenceSection(in)

RenderRivalContract(in) ==
  <<Title(TitleOrDefault(in))>>
  \o Joined([i \in DOMAIN Headings |-> <<Heading(Headings[i])>> \o RenderedSection(in, Headings[i])])
---------------------------------------------------------------------------
(* ParseRivalContractBody.                                                 *)
ExtractContractTitle(b) == b # <<>> /\ b[1].kind = "title"

At(b, name) == {i \in DOMAIN b : b[i].kind = "heading" /\ b[i].label = name}

(* The last of the sections of that name, up to the next heading.          *)
SplitRivalSections(b, name) ==
  LET first == Largest(At(b, name)) + 1
      later == {i \in DOMAIN b : i >= first /\ b[i].kind = "heading"}
  IN  SubSeq(b, first, IF later = {} THEN Len(b) ELSE Smallest(later) - 1)

ParseRivalContractBody(b) ==
  ExtractContractTitle(b) /\ \A name \in Sections : At(b, name) # {}

EvidenceKeys ==
  {"check", "test", "lint", "semgrep", "nfr.p95_latency_ms", "nfr.error_rate_percent",
   "nfr.success_rate_percent", "nfr.target_rps"}

Operators == <<<<"<", "=">>, <<">", "=">>, <<"=", "=">>, <<"<">>, <<">">>, <<"=">>>>

StartsWith(text, op) == Len(op) <= Len(text) /\ SubSeq(text, 1, Len(op)) = op

SplitOperator(text) ==
  LET found == {i \in DOMAIN Operators : StartsWith(text, Operators[i])}
      op    == IF found = {} THEN <<>> ELSE Operators[Smallest(found)]
  IN  [operator |-> op, value |-> SubSeq(text, Len(op) + 1, Len(text))]

ParseEvidenceItems(lines) ==
  LET Kept(l) == l.kind = "bullet" /\ l.label \in EvidenceKeys
      kept    == Where(lines, Kept)
  IN  [i \in DOMAIN kept |-> [key |-> kept[i].label, item |-> SplitOperator(kept[i].text)]]
---------------------------------------------------------------------------
(* The parts of the export that both formats have code for.                *)
Labels ==
  [Commands |-> {"Command:"}, Events |-> {"Event:"},
   ReadModels |-> {"Read model:", "Read Model:"}, Aggregates |-> {"Aggregate:"}]

Labelled == UNION {Labels[k] : k \in DOMAIN Labels}

SafeguardPrefixes == {"Do not", "Don't", "Never", "Forbidden", "No", "Avoid"}

IsSafeguardBullet(l) == l.kind = "bullet" /\ l.label \in SafeguardPrefixes

(* Each target of the steps once, where it was named first.                *)
Targets(steps) ==
  LET IsTarget(l) == l.label = "Target:" /\ l.text # <<>>
      all         == Where(steps, IsTarget)
      First(i)    == \A j \in 1 .. i - 1 : all[j].text # all[i].text
  IN  Joined([i \in DOMAIN all |-> IF First(i) THEN <<all[i].text>> ELSE <<>>])

(* ExportToReasonsCanvas: Markdown, lines under headings.                  *)
RenderEntities(domain, style) ==
  LET In(k) == LET Test(l) == l.kind = "bullet" /\ l.label \in Labels[k]
                   found   == Where(domain, Test)
               IN  [i \in DOMAIN found |-> Bullet("", found[i].text)]
      Other == LET Test(l) == l.kind # "bullet" \/ l.label \notin Labelled
                   found   == Where(domain, Test)
               IN  [i \in DOMAIN found |-> Bullet(found[i].label, found[i].text)]
  IN  IF style # "event-sourced" \/ domain = <<>> THEN domain
      ELSE Joined([i \in 1 .. 9 |->
             CASE i = 1 -> <<Heading("Commands")>>    [] i = 2 -> In("Commands")
               [] i = 3 -> <<Heading("Events")>>      [] i = 4 -> In("Events")
               [] i = 5 -> <<Heading("Read Models")>> [] i = 6 -> In("ReadModels")
               [] i = 7 -> <<Heading("Aggregates")>>  [] i = 8 -> In("Aggregates")
               [] i = 9 -> IF Other = <<>> THEN <<>> ELSE <<Heading("Other")>> \o Other])

(* Mutant: prose among the boundaries is left out.                         *)
BulletsOnly(boundaries) ==
  LET Norm(l) == l.kind = "bullet" /\ ~IsSafeguardBullet(l)
      norms   == Where(boundaries, Norm)
  IN  [norms      |-> [i \in DOMAIN norms |-> Bullet(norms[i].label, norms[i].text)],
       safeguards |-> Where(boundaries, IsSafeguardBullet)]

SplitBoundaries(boundaries) ==
  LET Norm(l) == ~IsSafeguardBullet(l)
      norms   == Where(boundaries, Norm)
  IN  [norms      |-> [i \in DOMAIN norms |-> Bullet(norms[i].label, norms[i].text)],
       safeguards |-> Where(boundaries, IsSafeguardBullet)]

ExportToReasonsCanvas(b, style) ==
  LET S(name) == SplitRivalSections(b, name)
      targets == Targets(S("Steps"))
      split   == SplitBoundaries(S("Boundaries"))
  IN  [Requirements |-> S("Intent"), Entities   |-> RenderEntities(S("Domain"), style),
       Approach     |-> S("Decisions"),
       Structure    |-> [i \in DOMAIN targets |-> Bullet("", targets[i])],
       Operations   |-> S("Steps"),  Norms      |-> split.norms,
       Safeguards   |-> split.safeguards,       Validation |-> S("Evidence")]

(* ExportToReasonsCanvasJSON: lists of strings, here labels with texts.    *)
String(l) == <<l.label, l.text>>

BulletsOf(lines) == [i \in DOMAIN lines |-> String(lines[i])]

EntitiesJSON(domain, style) ==
  LET In(k) == LET Test(l) == style = "event-sourced" /\ l.kind = "bullet" /\ l.label \in Labels[k]
                   found   == Where(domain, Test)
               IN  [i \in DOMAIN found |-> <<"", found[i].text>>]
      Rest(l) == style = "event-sourced" /\ (l.kind = "bullet" => l.label \notin Labelled)
  IN  [verbatim   |-> domain,
       commands   |-> In("Commands"),   events     |-> In("Events"),
       readModels |-> In("ReadModels"), aggregates |-> In("Aggregates"),
       other      |-> BulletsOf(Where(domain, Rest))]

SplitBoundariesLists(boundaries) ==
  LET Norm(l) == l.kind = "prose" \/ l.label \notin SafeguardPrefixes
  IN  [norms      |-> BulletsOf(Where(boundaries, Norm)),
       safeguards |-> BulletsOf(Where(boundaries, IsSafeguardBullet))]

ExportToReasonsCanvasJSON(b, style) ==
  LET S(name) == SplitRivalSections(b, name)
      split   == SplitBoundariesLists(S("Boundaries"))
  IN  [requirements |-> BulletsOf(S("Intent")), entities   |-> EntitiesJSON(S("Domain"), style),
       approach     |-> BulletsOf(S("Decisions")),
       structure    |-> Targets(S("Steps")),
       operations   |-> S("Steps"),             norms      |-> split.norms,
       safeguards   |-> split.safeguards,       validation |-> BulletsOf(S("Evidence"))]

RenderRivalCanvas(format, b, style) ==
  IF format = "json" THEN ExportToReasonsCanvasJSON(b, style) ELSE ExportToReasonsCanvas(b, style)
---------------------------------------------------------------------------
Init ==
  /\ source \in Inputs
  /\ body = RenderRivalContract(source)
  /\ edits = 0

(* Somebody puts a line in or takes one out.                               *)
Inserted(i, l) ==
  /\ edits < MaxEdits
  /\ body' = SubSeq(body, 1, i) \o <<l>> \o SubSeq(body, i + 1, Len(body))
  /\ edits' = edits + 1
  /\ UNCHANGED source

Removed(i) ==
  /\ edits < MaxEdits
  /\ body' = SubSeq(body, 1, i - 1) \o SubSeq(body, i + 1, Len(body))
  /\ edits' = edits + 1
  /\ UNCHANGED source

Next ==
  \/ \E i \in 0 .. Len(body), l \in EditLines : Inserted(i, l)
  \/ \E i \in DOMAIN body : Removed(i)

Spec == Init /\ [][Next]_vars
---------------------------------------------------------------------------
HasHeading(lines) == \E i \in DOMAIN lines : lines[i].kind = "heading"

(* Everything an input says is under headings of the renderer's.           *)
Plain(in) == \A name \in Sections : ~HasHeading(RenderedSection(in, name))

Texts(lines) == [i \in DOMAIN lines |-> String(lines[i])]

Count(s, x) == Cardinality({i \in DOMAIN s : s[i] = x})

(* A rendered contract without edits and foreign headings parses, and each *)
(* section is what was rendered.                                           *)
RoundTrips ==
  edits = 0 /\ Plain(source) =>
    /\ ParseRivalContractBody(body)
    /\ \A name \in Sections :
         SplitRivalSections(body, name) = RenderedSection(source, name)

(* If it parses and each heading is known and there once, each line below  *)
(* the first heading is in one section, as often as it is in the mail.     *)
NoLineIsLost ==
  LET heads == {i \in DOMAIN body : body[i].kind = "heading"}
      below == SubSeq(body, Smallest(heads), Len(body))
      Text(l) == l.kind # "heading"
      all   == Joined([i \in DOMAIN Headings |-> SplitRivalSections(body, Headings[i])])
  IN  ParseRivalContractBody(body) /\ Cardinality(heads) = Cardinality(Sections)
      => \A l \in {body[i] : i \in DOMAIN body} :
           Count(all, l) = Count(Where(below, Text), l)

(* Both formats say the same, and what an event-sourced domain and the     *)
(* boundaries are split into has each of their lines.                      *)
FormatsAgree ==
  ParseRivalContractBody(body) =>
    LET md     == RenderRivalCanvas("markdown", body, source.style)
        json   == RenderRivalCanvas("json", body, source.style)
        domain == SplitRivalSections(body, "Domain")
        bounds == SplitRivalSections(body, "Boundaries")
        Text(l) == l.kind # "heading"
    IN  /\ Texts(md.Norms) = json.norms /\ Texts(md.Safeguards) = json.safeguards
        /\ Texts(md.Requirements) = json.requirements /\ Texts(md.Validation) = json.validation
        /\ \A x \in {String(bounds[i]) : i \in DOMAIN bounds} :
             Count(Texts(bounds), x) = Count(json.norms, x) + Count(json.safeguards, x)
        /\ source.style = "event-sourced" =>
             /\ Texts(Where(md.Entities, Text))
                = json.entities.commands \o json.entities.events \o json.entities.readModels
                  \o json.entities.aggregates \o json.entities.other
             /\ Len(Where(md.Entities, Text)) = Len(domain)

(* Of the operators the longest that fits is taken.                        *)
OperatorsAreWhole ==
  \A i \in DOMAIN body : \A op \in {Operators[k] : k \in DOMAIN Operators} :
    StartsWith(body[i].text, op) => Len(op) <= Len(SplitOperator(body[i].text).operator)

CanvasKeepsContract == RoundTrips /\ NoLineIsLost /\ FormatsAgree /\ OperatorsAreWhole
=============================================================================
