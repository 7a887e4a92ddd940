----------------------------- MODULE RobotsRules -----------------------------
(***************************************************************************)
(* robots.txt (crates/crawl/src/robots.rs): which group of a file a        *)
(* crawler obeys, and what the group's rules say of a path.                *)
(*                                                                         *)
(* A file is a sequence of lines [field, value], comments and what is not  *)
(* a field gone; values, names and paths are sequences of characters.      *)
(***************************************************************************)
EXTENDS Integers, Sequences, SequencesExt, FiniteSetsExt

Star == "*"
Dollar == "$"
AllowAll == [rules |-> << >>, delay |-> 0, sitemaps |-> << >>]
DenyAll == [AllowAll EXCEPT !.rules = <<[path |-> <<"/">>, allow |-> FALSE]>>]

(***************************************************************************)
(* parse                                                                   *)
(***************************************************************************)

\* How well a group's names match the agent: the longest that is a prefix.
Matching(names, agent) ==
  {IF n = <<Star>> THEN 0 ELSE Len(n) : n \in {m \in ToSet(names) : m = <<Star>> \/ IsPrefix(m, agent)}}

\* No group yet; none begun.
Reading == [specificity |-> -1, rules |-> << >>, delay |-> 0, sitemaps |-> << >>,
            names |-> << >>, group |-> << >>, pause |-> 0, inRules |-> FALSE]

\* Rules stay when a group's name does not match.
BugGroupClosed(agent, r) ==
  IF Matching(r.names, agent) = {}
  THEN [r EXCEPT !.names = << >>, !.inRules = FALSE]
  ELSE [r EXCEPT !.specificity = Max(Matching(r.names, agent)), !.rules = r.group, !.delay = r.pause,
                 !.names = << >>, !.group = << >>, !.pause = 0, !.inRules = FALSE]

\* close_group: a group at least as specific as the best takes its place.
GroupClosed(agent, r) ==
  LET begun == [r EXCEPT !.names = << >>, !.group = << >>, !.pause = 0, !.inRules = FALSE]
      found == Matching(r.names, agent)
  IN IF found # {} /\ Max(found) >= r.specificity
     THEN [begun EXCEPT !.specificity = Max(found), !.rules = r.group, !.delay = r.pause] ELSE begun

Line(agent, r, line) ==
  CASE line.field = "user-agent" ->
         LET now == IF r.inRules THEN GroupClosed(agent, r) ELSE r
         IN [now EXCEPT !.names = Append(@, line.value)]
    [] line.field \in {"allow", "disallow"} ->
         LET empty == line.field = "disallow" /\ line.value = << >>
             rule == [path |-> line.value, allow |-> line.field = "allow"]
         IN [r EXCEPT !.inRules = TRUE, !.group = IF empty THEN @ ELSE Append(@, rule)]
    [] line.field = "crawl-delay" ->
         [r EXCEPT !.inRules = TRUE, !.pause = IF line.value \in Nat THEN Min({line.value, 300}) ELSE @]
    [] line.field = "sitemap" -> [r EXCEPT !.sitemaps = Append(@, line.value)]
    [] OTHER -> r

ReadOn(agent, r, file) ==
  LET so[i \in 0..Len(file)] == IF i = 0 THEN r ELSE Line(agent, so[i - 1], file[i]) IN so[Len(file)]
ParseRobots(file, agent) ==
  LET read == GroupClosed(agent, ReadOn(agent, Reading, file))
  IN [rules |-> read.rules, delay |-> read.delay, sitemaps |-> read.sitemaps]

(***************************************************************************)
(* path_matches and allows                                                 *)
(***************************************************************************)

Anchored(pattern) == pattern # << >> /\ pattern[Len(pattern)] = Dollar
Length(pattern) == IF Anchored(pattern) THEN Len(pattern) - 1 ELSE Len(pattern)

\* The star before a place in the pattern, or none.
StarBefore(pattern, end) == Max({0} \cup {i \in 1..(end - 1) : pattern[i] = Star})

\* What the pattern has between a star and a place stands at the cursor.
Occurs(pattern, star, end, path, cursor) ==
  /\ cursor + (end - 1 - star) <= Len(path)
  /\ \A k \in 1..(end - 1 - star) : path[cursor + k] = pattern[star + k]

\* Where the path is after the pattern up to a place, each piece taken where
\* it is found first and the first piece at the path's start, or -1.
Cursor(pattern, path) ==
  LET after[end \in 1..(Length(pattern) + 1)] ==
        LET star == StarBefore(pattern, end)
            at == {c \in 0..Len(path) :
                     /\ IF star = 0 THEN c = 0 ELSE after[star] # -1 /\ after[star] <= c
                     /\ Occurs(pattern, star, end, path, c)}
        IN IF at = {} THEN -1 ELSE Min(at) + (end - 1 - star)
  IN after[Length(pattern) + 1]

PathMatches(pattern, path) ==
  LET open == Length(pattern) # 0 /\ pattern[Length(pattern)] = Star
  IN /\ pattern # << >>
     /\ Cursor(pattern, path) # -1
     /\ Anchored(pattern) /\ ~open => Cursor(pattern, path) = Len(path)

\* The longest rule wins; of two as long, one that allows.
Judged(path, so, rule) ==
  LET length == Len(rule.path)
  IN IF PathMatches(rule.path, path) /\ (length > so.length \/ (length = so.length /\ rule.allow))
     THEN [length |-> length, allow |-> rule.allow] ELSE so
PathAllowed(robots, path) ==
  LET so[i \in 0..Len(robots.rules)] ==
        IF i = 0 THEN [length |-> 0, allow |-> TRUE] ELSE Judged(path, so[i - 1], robots.rules[i])
  IN so[Len(robots.rules)].allow
=============================================================================
