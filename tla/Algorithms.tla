----------------------------- MODULE Algorithms -----------------------------
(***************************************************************************)
(* The algorithms that compute without a state of their own, each asked    *)
(* one question: which rules of robots.txt hold, what a page says, which   *)
(* URL a link leads to and which shard owns it, what a query means and     *)
(* which extract shows it, what arrives of a message, what a segment's     *)
(* file holds.  The invariants compare what the code's steps make of a     *)
(* question with a definition that does not go by these steps.             *)
(***************************************************************************)
EXTENDS RobotsRules, Extract, Snippet, Wire, SegmentFile, Placement

CONSTANTS
  RobotsGroups, Agents, Paths,      \* [names, rules], agents' names, paths
  Pages,                            \* sequences of a scanner's items
  Urls, DrawSequences, Shards,      \* URLs that were joined to their base
  Texts, Typings, SnippetWidth,     \* texts, queries as typed
  Requests, Responses,              \* messages
  Built                             \* what a SegmentBuilder holds

\* A URL has these parts and no others, and there are draws enough to leave
\* all the buckets.
ASSUME AddressesAssumption ==
  /\ \A u \in Urls :
       /\ u = [scheme |-> u.scheme, host |-> u.host, dots |-> u.dots, port |-> u.port, path |-> u.path,
              query |-> u.query, asked |-> u.asked, fragment |-> u.fragment, onlyFragment |-> u.onlyFragment]
       /\ {u.port, u.dots} \subseteq Nat /\ u.query \in Seq(STRING) /\ u.onlyFragment \in BOOLEAN
  /\ Shards \in Nat
  /\ \A draws \in DrawSequences : draws \in Seq(1..Draws) /\ Len(draws) >= Shards

\* A robots.txt is written group by group: names, and then what holds for
\* them.
RobotsLine == [field : {"allow", "disallow"}, value : Seq(STRING)] \cup [field : {"crawl-delay"}, value : Int]
RobotsGroup == [names : Seq(Seq(STRING)) \ {<< >>}, rules : Seq(RobotsLine) \ {<< >>}]
ASSUME RobotsAssumption ==
  RobotsGroups \subseteq Seq(RobotsGroup) /\ Agents \subseteq Seq(STRING) /\ Paths \subseteq Seq(STRING)

VARIABLES
  asked,   \* the question
  made     \* what the code makes of it

vars == <<asked, made>>

None == [kind |-> "none"]

Init == asked = None /\ made = << >>

\* A file of these groups, line by line.
Lines(groups) ==
  LET up[g \in 0..Len(groups)] ==
        IF g = 0 THEN << >>
        ELSE up[g - 1] \o [n \in 1..Len(groups[g].names) |-> [field |-> "user-agent", value |-> groups[g].names[n]]]
               \o groups[g].rules
  IN up[Len(groups)]

ReadRobots ==
  \E groups \in RobotsGroups, agent \in Agents, path \in Paths :
    LET robots == ParseRobots(Lines(groups), agent)
    IN /\ asked' = [kind |-> "robots", groups |-> groups, agent |-> agent, path |-> path]
       /\ made' = [rules |-> robots.rules, delay |-> robots.delay, allowed |-> PathAllowed(robots, path)]

ReadPage ==
  \E page \in Pages :
    /\ asked' = [kind |-> "page", page |-> page]
    /\ made' = ExtractPage(page)

FollowLink ==
  \E url, other \in Urls, draws \in DrawSequences :
    /\ asked' = [kind |-> "link", url |-> url, other |-> other, draws |-> draws]
    /\ made' = [url |-> Resolve(url), other |-> Resolve(other),
                again |-> Resolve(Resolve(url)),
                shard |-> [n \in 0..Shards |-> JumpHash(draws, n)]]

AskQuery ==
  \E text \in Texts, typed \in Typings :
    LET query == Parse(typed)
        terms == ToSet(query.terms) \cup ToSet(FlattenSeq(query.phrases))
    IN /\ asked' = [kind |-> "query", text |-> text, typed |-> typed, terms |-> terms]
       /\ made' = [query |-> query, spans |-> Spans(text), snippet |-> BestSnippet(text, terms, SnippetWidth)]

SendRequest ==
  \E message \in Requests :
    LET bytes == Encode(RequestWritten, message)
        frame == WriteFrame(bytes)
    IN /\ asked' = [kind |-> "request", message |-> message]
       /\ made' = [bytes |-> bytes, frame |-> frame, read |-> Decode(RequestRead, bytes)]

SendResponse ==
  \E message \in Responses :
    LET bytes == Encode(ResponseWritten, message)
        frame == WriteFrame(bytes)
    IN /\ asked' = [kind |-> "response", message |-> message]
       /\ made' = [bytes |-> bytes, frame |-> frame, read |-> Decode(ResponseRead, bytes)]

WriteSegment ==
  \E built \in Built :
    /\ asked' = [kind |-> "segment", built |-> built]
    /\ made' = EncodedFile(built)

Asking == \/ SendRequest \/ SendResponse \/ WriteSegment
          \/ ReadPage \/ FollowLink \/ ReadRobots \/ AskQuery
Next == asked = None /\ Asking

Spec == Init /\ [][Next]_vars

(***************************************************************************)
(* Properties                                                              *)
(***************************************************************************)

\* The members of a sequence at these places, in order.
Picked(s, places) ==
  [n \in 1..Cardinality(places) |-> s[CHOOSE i \in places : Cardinality({j \in places : j < i}) = n - 1]]

\* A pattern's characters stand for themselves, a star for any number of
\* them, a dollar at the end for the path's end: what comes before place i of
\* the pattern is what comes before place at[i] of the path.
Covers(pattern, path) ==
  /\ pattern # << >>
  /\ \E at \in [1..(Length(pattern) + 1) -> 1..(Len(path) + 1)] :
       /\ at[1] = 1
       /\ \A i \in 1..Length(pattern) :
            IF pattern[i] = Star THEN at[i] <= at[i + 1]
            ELSE at[i] <= Len(path) /\ at[i + 1] = at[i] + 1 /\ path[at[i]] = pattern[i]
       /\ Anchored(pattern) => at[Length(pattern) + 1] = Len(path) + 1

\* A pattern with a star and an end is looked for greedily, and only that far.
Plain(pattern) == ~(Star \in ToSet(pattern) /\ Dollar \in ToSet(pattern))

IsRule(line) == line.field = "allow" \/ (line.field = "disallow" /\ line.value # << >>)

Specificity(names, agent) ==
  Max({-1} \cup {Len(n) : n \in {m \in ToSet(names) : m # <<Star>> /\ IsPrefix(m, agent)}}
           \cup {0 : n \in {m \in ToSet(names) : m = <<Star>>}})

\* robots.txt: a crawler obeys one group, the last of those whose name matches
\* it best, and no rule of another group; a path is closed to it exactly if
\* some disallow is longer than every allow, among the rules that cover it.  A
\* pattern never covers more than it says, and with an end after a star it may
\* cover less (robots.rs, parse, path_matches, allows).
RobotsObeyed ==
  asked.kind = "robots" =>
    LET groups == asked.groups
        best == {g \in DOMAIN groups :
                   /\ Specificity(groups[g].names, asked.agent) >= 0
                   /\ \A h \in DOMAIN groups :
                        Specificity(groups[h].names, asked.agent) <= Specificity(groups[g].names, asked.agent)}
        lines == IF best = {} THEN << >> ELSE groups[Max(best)].rules
        wanted == Picked(lines, {i \in DOMAIN lines : IsRule(lines[i])})
        covering(field) == {Len(wanted[i].value) : i \in {k \in DOMAIN wanted :
                              wanted[k].field = field /\ Covers(wanted[k].value, asked.path)}}
        closed == \E d \in covering("disallow") : \A a \in covering("allow") : a < d
    IN /\ made.rules = [i \in DOMAIN wanted |-> [path |-> wanted[i].value, allow |-> wanted[i].field = "allow"]]
       /\ \A i \in DOMAIN wanted : PathMatches(wanted[i].value, asked.path) => Covers(wanted[i].value, asked.path)
       /\ (\A i \in DOMAIN wanted : Plain(wanted[i].value)) => made.allowed = ~closed

IsTag(item, name) == item.kind = "tag" /\ item.name = name

\* A text as it is written in markup.
Escaped(text) ==
  FlattenSeq([i \in DOMAIN text |-> CASE text[i] = "&" -> <<"&", "amp", ";">>
                                     [] text[i] = "<" -> <<"&", "lt", ";">> [] OTHER -> <<text[i]>>])

\* Extraction: every <a href> that is seen and not nofollow yields one link, in
\* the order of the page, and its text is what is seen up to the next tag that opens or
\* closes a link: nothing of scripts or comments, whitespace collapsed, a
\* block's edge as whitespace, entities decoded, and what they stand for not
\* decoded again (extract.rs, extract, decode_entities).
LinksKeepTheirText ==
  asked.kind = "page" =>
    LET page == asked.page
        seen(i) ==
          /\ ~\E j \in 1..(i - 1) :
               /\ IsTag(page[j], "script") /\ ~page[j].closing
               /\ ~\E k \in (j + 1)..(i - 1) : page[k].kind = "tag" /\ page[k].closing /\ BeginsWith(page[k].name, "script")
        over == {i \in DOMAIN page : seen(i) /\ page[i].kind \in {"open comment", "open tag"}}
        end == Min(over \cup {Len(page) + 1})
        visible == {i \in DOMAIN page : seen(i) /\ i <= end}
        says(i) == IF i \notin visible THEN << >>
                   ELSE IF page[i].kind \in {"text", "open tag"} THEN page[i].text
                   ELSE IF page[i].kind = "tag" /\ page[i].name \in Blocks THEN <<Gap>> ELSE << >>
        next(i) == Min({j \in visible : j > i /\ IsTag(page[j], "a")} \cup {Len(page) + 1})
        text(i, j) == DecodeEntities(Stripped(Collapsed(<< >>, FlattenSeq(
                        [k \in 1..(j - i - 1) |-> says(i + k)]))))
        openers == SetToSortSeq({i \in visible : /\ IsTag(page[i], "a") /\ ~page[i].closing
                                                 /\ page[i].href # NoHref /\ ~page[i].nofollow}, <)
    IN /\ made.links = [n \in DOMAIN openers |-> [href |-> page[openers[n]].href, text |-> text(openers[n], next(openers[n]))]]
       /\ made.text = text(0, Len(page) + 1)
       /\ DecodeEntities(Escaped(made.text)) = made.text

\* A dot behind a host is no other host; a second one makes it one.
SameResource(u, v) ==
  LET port(w) == IF w.port = 0 THEN DefaultPort[w.scheme] ELSE w.port
      root(w) == IF w.path = "" THEN "/" ELSE w.path
      asks(w) == Picked(w.query, {i \in DOMAIN w.query : w.query[i] \notin Tracking})
      sameHost == u.host = v.host /\ (u.dots = v.dots \/ {u.dots, v.dots} \subseteq {0, 1})
  IN sameHost /\ u.scheme = v.scheme /\ port(u) = port(v) /\ root(u) = root(v) /\ asks(u) = asks(v)

\* Addresses: two links that lead to the same page become the same URL, two
\* that do not never do, and normalising again changes nothing but for a host
\* with more than one dot behind it, which loses one each time; and a URL's
\* shard is one there is, and only ever changes for a shard that is added
\* (normalize.rs, resolve; routing.rs, jump_hash).
AddressesAreStable ==
  asked.kind = "link" =>
    /\ asked.url.dots <= 1 => made.again = made.url
    /\ NotFetched \notin {made.url, made.other} => (made.url = made.other <=> SameResource(asked.url, asked.other))
    /\ made.shard[0] = 0
    /\ \A n \in 1..Shards : made.shard[n] \in 0..(n - 1)
    /\ \A n \in 1..(Shards - 1) : made.shard[n + 1] \in {made.shard[n], n}

\* Queries and extracts: a query of plain words asks for exactly the terms the
\* same words are indexed under, but for letters that lowercase to two
\* characters; an extract is never cut within a character, which would be a
\* panic; every highlight of it is on characters' edges,
\* behind the one before, and spells a word of the query.  No word that occurs
\* is missing from the highlights when there are at most three of them and
\* each fits its share of the width (query.rs, parse; tokenizer.rs, scan;
\* snippet.rs, best_snippet).
MatchesAreShown ==
  asked.kind = "query" =>
    LET snippet == made.snippet
        shown == snippet.highlights
        word(h) == Fold(Characters(Slice(snippet.text, h[1], h[2])))
        present == {s \in ToSet(made.spans) : s.text \in asked.terms}
        words == {s.text : s \in present}
    IN /\ ToSet(asked.typed) \cap {Quote, Minus, "Idot"} = {} => made.query.terms = Deduped(Tokens(asked.typed))
       /\ Panic \notin ToSet(snippet.text)
       /\ \A k \in DOMAIN shown : /\ {shown[k][1], shown[k][2]} \subseteq Boundaries(snippet.text)
                                  /\ word(shown[k]) \in asked.terms
                                  /\ k > 1 => shown[k - 1][2] <= shown[k][1]
       /\ (/\ Cardinality(words) \in 1..MaxFragments
           /\ \A s \in present : s.end - s.start <= SnippetWidth \div Cardinality(words))
          => {word(shown[k]) : k \in DOMAIN shown} = words

\* What a reader refuses to allocate.
Within(encoding, value) ==
  CASE encoding.is = "str" -> Len(value) <= MaxString
    [] encoding.is \in {"raw", "list"} -> Len(value) <= MaxCollection
    [] OTHER -> TRUE

\* Of a message: whole or not at all, and so if it is cut or continued.
Arrives(written, read) ==
  LET message == asked.message
      k == written[message.kind]
      fits == \A i \in DOMAIN k.names : Within(k.encodings[i], message.fields[k.names[i]])
  IN /\ made.read = IF fits THEN message ELSE Corrupt
     /\ \A n \in 0..(Len(made.bytes) - 1) : Decode(read, SubSeq(made.bytes, 1, n)) = Corrupt
     /\ Decode(read, Append(made.bytes, 0)) = Corrupt
     /\ made.frame.ok =>
          LET first == ReadFrame(made.frame.value \o made.frame.value)
          IN first.value = made.bytes /\ ReadFrame(first.rest).value = made.bytes

\* Of a file: the documents, exactly the terms, and each term's list.
Holds(file, built) ==
  /\ Opens(file) /\ Verified(file)
  /\ TermsOf(file) = SortedTerms(built)
  /\ \A id \in 1..(Len(built.docs) + 1) :
       IF id > Len(built.docs) THEN DocUri(file, id) = Missing /\ DocLengths(file, id) = Missing
       ELSE /\ DocUri(file, id) = [found |-> TRUE, uri |-> built.docs[id].uri]
            /\ DocLengths(file, id) = [found |-> TRUE, length |-> built.docs[id].length, rank |-> built.docs[id].rank]
  /\ \A term \in UNION {DOMAIN b.lists : b \in Built} :
       LET got == TermBlocks(file, term)
           list == built.lists[term]
       IN IF term \notin DOMAIN built.lists THEN got = Missing /\ DocumentFrequency(file, term) = 0
          ELSE /\ got # Missing /\ got.docs = list.docs /\ DocumentFrequency(file, term) = list.docs
               /\ Len(got.blocks) = Len(list.blocks)
               /\ \A k \in DOMAIN list.blocks :
                    /\ got.blocks[k].first = list.blocks[k].first /\ got.blocks[k].bound = list.blocks[k].bound
                    /\ Cells(file, got.blocks[k].at, got.blocks[k].at + 1) = <<list.cells[list.blocks[k].at + 1]>>

\* Bytes: what is read is what was written.  A message arrives whole, or is
\* refused: when it is cut or continued, and when one of its fields is longer
\* than a reader allows.  A segment's file opens and verifies, and answers for
\* its documents, its terms and the absence of others (proto/src/codec.rs,
\* message.rs; frame.rs; builder.rs, encode; segment.rs, open, lookup).
BytesReadBack ==
  /\ asked.kind = "request" => Arrives(RequestWritten, RequestRead)
  /\ asked.kind = "response" => Arrives(ResponseWritten, ResponseRead)
  /\ asked.kind = "segment" => Holds(made, asked.built)
=============================================================================
