--------------------------- MODULE PermissionGate ---------------------------
(***************************************************************************)
(* The permission engine (crates/permissions): how the rules that match a  *)
(* tool call, the session's mode, the tool's own opinion and the lists of  *)
(* protected paths become allow, deny or ask, and how the rules change     *)
(* while a session runs.                                                   *)
(*                                                                         *)
(* Strings are opaque.  Whether a rule's tool name or content matches is a *)
(* relation, the split of a shell line into simple commands is a set, and  *)
(* which strings name protected paths is a set.  A rule set is a function  *)
(* from positions to rules, so that rules keep their order when others are *)
(* removed.  The session's directory, which relative patterns are resolved *)
(* against, stays.                                                         *)
(***************************************************************************)
EXTENDS Naturals

CONSTANTS
  Tools,        \* tool names
  Texts,        \* commands, paths and patterns
  Covers,       \* matches_tool_name: pairs <<name in a rule, name of a tool>>
  Matches,      \* matches_content: pairs <<pattern, text>>
  PathMatches,  \* path_rule::matches on a resolved pattern: pairs <<pattern, path>>
  Length,       \* the length of a pattern
  MaxLength,    \* the greatest length (an i32)
  Immune,       \* is_path_bypass_immune
  Confirm       \* is_path_confirmation_required

VARIABLES
  rules,  \* PermissionGate::rules
  next,   \* the next free position in rules
  mode    \* SessionState::permission_mode

gateVars == <<rules, next, mode>>

Nothing == "no content"   \* None: no rule content, no match content, no alias
Behaviors == {"deny", "ask", "allow"}
Sources == {"cli", "session", "command", "local", "project", "user", "policy", "plugin"}
Modes == {"default", "plan", "acceptEdits", "bypass", "auto", "dontAsk", "bubble", "yolo"}

PermissionRule == [behavior : Behaviors, tool : Tools, content : Texts \union {Nothing}, source : Sources]

(***************************************************************************)
(* A tool call as the gate sees it: what the tool says of itself and its   *)
(* input, the text its rules are matched against and what that resolves    *)
(* to.  A path has at most two aliases: with ~ expanded, and canonical.    *)
(***************************************************************************)
Call ==
  [known : BOOLEAN, valid : BOOLEAN, tool : Tools, kind : {"opaque", "shell", "read", "write"},
   text : Texts \union {Nothing}, trimmed : Texts, segments : SUBSET Texts,
   primary : Texts, home : Texts \union {Nothing}, real : Texts \union {Nothing},
   own : Behaviors, overrides : BOOLEAN, readOnly : BOOLEAN, edits : BOOLEAN,
   classifier : {"none", "allow", "allowWithEdit", "deny", "defer"}]

Priority(source) ==
  CASE source = "cli"     -> 60 [] source = "session" -> 50
    [] source = "command" -> 45 [] source = "local"   -> 40
    [] source = "project" -> 30 [] source = "user"    -> 20
    [] source = "policy"  -> 10 [] source = "plugin"  -> 5

(***************************************************************************)
(* RuleSet::decide: the first of the rules with the greatest score, which  *)
(* compares behavior, specificity and source in this order.                *)
(***************************************************************************)
Rank(r) == CASE r.behavior = "deny" -> 2 [] r.behavior = "ask" -> 1 [] r.behavior = "allow" -> 0
Specificity(r) == IF r.content = Nothing THEN 0 ELSE Length[r.content]

Strongest(rs, S) == {i \in S : \A j \in S : Rank(rs[j]) <= Rank(rs[i])}
MostSpecific(rs, S) == {i \in S : \A j \in S : Specificity(rs[j]) <= Specificity(rs[i])}
HighestSource(rs, S) == {i \in S : \A j \in S : Priority(rs[j].source) <= Priority(rs[i].source)}
Best(rs, hits) == HighestSource(rs, MostSpecific(rs, Strongest(rs, hits)))
Reported(rs, hits) == CHOOSE i \in Best(rs, hits) : \A j \in Best(rs, hits) : i <= j

\* RuleHit, without the rule it carries
Hit(rs, hits) == IF hits = {} THEN "none" ELSE rs[Reported(rs, hits)].behavior

\* RuleHit::restricted_by
RestrictedBy(self, other) ==
  IF self # "deny" /\ (other = "deny" \/ (other = "ask" /\ self # "ask")) THEN other ELSE self

(***************************************************************************)
(* RuleSet::evaluate, evaluate_path and evaluate_shell                     *)
(***************************************************************************)
TextHits(rs, tool, text) ==
  {i \in DOMAIN rs :
     /\ <<rs[i].tool, tool>> \in Covers
     /\ rs[i].content = Nothing \/ (text # Nothing /\ <<rs[i].content, text>> \in Matches)}

Group(c) == IF c.kind = "read" THEN "Read" ELSE "Edit"
PathHits(rs, c, path) ==
  {i \in DOMAIN rs :
     /\ <<rs[i].tool, c.tool>> \in Covers \/ rs[i].tool = Group(c)
     /\ rs[i].content = Nothing \/ <<rs[i].content, path>> \in PathMatches}
AliasHit(rs, c, alias) == IF alias = Nothing THEN "none" ELSE Hit(rs, PathHits(rs, c, alias))
EvaluatePath(rs, c) ==
  RestrictedBy(RestrictedBy(Hit(rs, PathHits(rs, c, c.primary)), AliasHit(rs, c, c.home)),
               AliasHit(rs, c, c.real))

EvaluateShell(rs, c) ==
  LET lineHits == TextHits(rs, c.tool, c.text)
      whole == Hit(rs, lineHits)
      parts == {Hit(rs, TextHits(rs, c.tool, s)) : s \in c.segments}
      exact == whole = "allow" /\ rs[Reported(rs, lineHits)].content = c.trimmed
  IN  CASE c.segments = {} -> whole
        [] c.segments # {} /\ "deny" \in parts \union {whole} -> "deny"
        [] c.segments # {} /\ "deny" \notin parts \union {whole} /\ "ask" \in parts \union {whole} -> "ask"
        [] OTHER -> IF exact \/ parts = {"allow"} THEN "allow" ELSE "none"

\* Which of the three the gate asks (step 3 of check).
RuleHit(rs, c) ==
  CASE c.kind \in {"read", "write"} /\ c.text # Nothing -> EvaluatePath(rs, c)
    [] c.kind = "shell" /\ c.text # Nothing -> EvaluateShell(rs, c)
    [] OTHER -> Hit(rs, TextHits(rs, c.tool, c.text))

(***************************************************************************)
(* PermissionGate::check and RuleSetPermission::check                      *)
(***************************************************************************)
Checked(c) ==
  IF c.text = Nothing THEN {}
  ELSE {c.text} \union (IF c.kind \in {"read", "write"} THEN {c.primary, c.home, c.real} \ {Nothing} ELSE {})

\* Step 5: what a mode refuses unless the tool's own allow overrides modes.
ModeDenies(m, c, hit) ==
  /\ ~(c.own = "allow" /\ c.overrides)
  /\ (m = "plan" /\ ~c.readOnly) \/ (m = "dontAsk" /\ hit # "allow")

\* Step 8
Dispatch(m, c) ==
  CASE m = "bypass" -> "allow"
    [] m = "acceptEdits" -> IF c.readOnly \/ c.edits THEN "allow" ELSE "ask"
    [] m = "dontAsk" -> "deny"
    [] m \in {"bubble", "default"} -> "ask"
    [] m = "plan" -> IF c.readOnly THEN "allow" ELSE "ask"
    [] m \in {"auto", "yolo"} ->
         IF c.classifier \in {"allow", "allowWithEdit"} THEN "allow"
         ELSE IF c.classifier = "deny" THEN "deny" ELSE "ask"

Gate(rs, m, c) ==
  LET hit == RuleHit(rs, c) IN
  IF ~c.valid \/ c.own = "deny" \/ hit = "deny" \/ Checked(c) \intersect Immune # {} \/ ModeDenies(m, c, hit)
  THEN "deny"
  ELSE IF hit = "ask" /\ m # "bypass" THEN (IF m = "dontAsk" THEN "deny" ELSE "ask")
  ELSE IF (c.own = "allow" /\ Checked(c) \intersect Confirm = {}) \/ hit = "allow" THEN "allow"
  ELSE Dispatch(m, c)

\* A tool that the registry does not know is asked about.
Check(rs, m, c) == IF c.known THEN Gate(rs, m, c) ELSE "ask"

(***************************************************************************)
(* What changes while a session runs.  It starts with the rules of the     *)
(* settings' tiers and those of the client's SessionOptions, which name    *)
(* their sources themselves.                                               *)
(***************************************************************************)
GateInit ==
  /\ next \in Nat
  /\ rules \in [0..(next - 1) -> PermissionRule]
  /\ mode \in Modes

Added(r) ==
  /\ rules' = [i \in DOMAIN rules \union {next} |-> IF i = next THEN r ELSE rules[i]]
  /\ next' = next + 1
  /\ UNCHANGED mode

\* A skill's allowed_tools
AddTemporaryAllow(tool, content) ==
  Added([behavior |-> "allow", tool |-> tool, content |-> content, source |-> "command"])

\* "permit always"
AddPersistentAllow(tool, content) ==
  Added([behavior |-> "allow", tool |-> tool, content |-> content, source |-> "session"])

\* A turn begins: what skills were allowed in the turn before goes, with whatever else says that
\* it is of source Command.
ClearTemporaryAllows ==
  /\ rules' = [i \in {j \in DOMAIN rules : rules[j].source # "command"} |-> rules[i]]
  /\ UNCHANGED <<next, mode>>

SetPermissionMode(m) == mode' = m /\ UNCHANGED <<rules, next>>

GateNext ==
  \/ \E tool \in Tools, content \in Texts \union {Nothing} :
       AddTemporaryAllow(tool, content) \/ AddPersistentAllow(tool, content)
  \/ ClearTemporaryAllows
  \/ \E m \in Modes : SetPermissionMode(m)

GateSpec == GateInit /\ [][GateNext]_gateVars

GateTypeOK ==
  /\ next \in Nat /\ mode \in Modes
  /\ DOMAIN rules \subseteq 0..(next - 1)
  /\ rules \in [DOMAIN rules -> PermissionRule]

-----------------------------------------------------------------------------
(* Properties.                                                             *)

\* Rule i of rs is about something that c runs or touches: its line or one of the commands in
\* it, its path or another name of the same file.
Concerns(rs, i, c) ==
  \/ /\ c.kind \in {"read", "write"} /\ c.text # Nothing
     /\ \E p \in {c.primary, c.home, c.real} \ {Nothing} : i \in PathHits(rs, c, p)
  \/ ~(c.kind \in {"read", "write"} /\ c.text # Nothing) /\ i \in TextHits(rs, c.tool, c.text)
  \/ c.kind = "shell" /\ c.text # Nothing /\ \E s \in c.segments : i \in TextHits(rs, c.tool, s)
RuledBy(rs, c, behavior) == \E i \in DOMAIN rs : rs[i].behavior = behavior /\ Concerns(rs, i, c)

\* "deny is a hard boundary": a call that some deny rule concerns is denied, whatever the mode,
\* the tool, the classifier and the other rules, of whatever source, say.
DenyIsFinal ==
  \A c \in Call : c.known /\ RuledBy(rules, c, "deny") => Check(rules, mode, c) = "deny"

\* A protected path is denied in every mode, also when it is reached through ~ or a link.
ImmuneIsFinal ==
  \A c \in Call : c.known /\ Checked(c) \intersect Immune # {} => Check(rules, mode, c) = "deny"

\* A call that an ask rule concerns is not allowed outside bypass mode.
AskIsAsked ==
  \A c \in Call :
    c.known /\ RuledBy(rules, c, "ask") /\ mode # "bypass" => Check(rules, mode, c) # "allow"

\* Nobody is asked under dontAsk, and plan mode lets nothing write that the tool itself did not
\* clear in spite of modes, whatever the rules allow.
StrictModes ==
  \A c \in Call : c.known =>
    /\ mode = "dontAsk" => Check(rules, mode, c) # "ask"
    /\ mode = "plan" /\ Check(rules, mode, c) = "allow" => c.readOnly \/ (c.own = "allow" /\ c.overrides)

\* A shell line is allowed by rules only if every command in it is, or the line itself was
\* approved; a path only if a rule allows the path that is opened, not merely an alias of it.
AllowCovers ==
  \A c \in Call : RuleHit(rules, c) = "allow" /\ c.text # Nothing =>
    /\ c.kind = "shell" =>
         \/ \A s \in c.segments : \E i \in TextHits(rules, c.tool, s) : rules[i].behavior = "allow"
         \/ \E i \in DOMAIN rules : rules[i].behavior = "allow" /\ rules[i].content = c.trimmed
    /\ c.kind \in {"read", "write"} =>
         \E i \in PathHits(rules, c, c.primary) : rules[i].behavior = "allow"

\* A deny rule about c that is not marked as a skill's.
StandingDeny(c) ==
  \E i \in DOMAIN rules : /\ rules[i].behavior = "deny" /\ rules[i].source # "command"
                           /\ Concerns(rules, i, c)

\* No grant that is made while the session runs, no clearing of grants and no change of mode takes
\* a refusal back: what such a rule refuses once is refused for the rest of the session.
DeniedForGood(c) == [](StandingDeny(c) => [](Check(rules, mode, c) = "deny"))

\* What the user permitted always outlives the clearing of the skills' grants.
GrantsStay ==
  [][\A c \in Call : (\E i \in DOMAIN rules : rules[i].source = "session" /\ Concerns(rules, i, c))
       => \E i \in DOMAIN rules' : rules'[i].source = "session" /\ Concerns(rules', i, c)]_gateVars
=============================================================================
