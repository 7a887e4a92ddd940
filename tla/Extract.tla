------------------------------- MODULE Extract -------------------------------
(***************************************************************************)
(* Text and links out of HTML, and links into URLs (crates/crawl:          *)
(* extract.rs, normalize.rs).                                              *)
(*                                                                         *)
(* A page is a sequence of what the scanner tells apart: a stretch of      *)
(* text, a comment or a doctype, a comment that is not closed, a tag with  *)
(* the attributes that matter, a tag that is not closed.  Text is a        *)
(* sequence of characters, among them entities taken apart.                *)
(***************************************************************************)
EXTENDS Integers, Sequences, SequencesExt, FiniteSetsExt

Gap == " "
Skipped == {"script", "style", "noscript", "template", "svg"}
Blocks == {"p", "div", "br", "li", "tr", "td", "h1", "h2", "h3", "h4", "h5", "h6",
           "section", "article", "header", "footer", "blockquote"}
NoHref == "no href"

\* Names that go on where a skipped element's ends: one stands for all of them.
Longer == [scripts |-> "script"]
BeginsWith(name, short) == name = short \/ (name \in DOMAIN Longer /\ Longer[name] = short)

(***************************************************************************)
(* Characters                                                              *)
(***************************************************************************)

\* push_collapsed
Collapsed(out, chunk) ==
  FoldLeft(LAMBDA so, c : IF c # Gap THEN Append(so, c)
                          ELSE IF so # << >> /\ Last(so) # Gap THEN Append(so, Gap) ELSE so,
           out, chunk)
Stripped(s) ==
  LET kept == {i \in DOMAIN s : s[i] # Gap}
  IN IF kept = {} THEN << >> ELSE SubSeq(s, Min(kept), Max(kept))

\* Entities by name: those of markup, and one of Latin-1 for all of them.
Named == [amp |-> "&", lt |-> "<", gt |-> ">", ntilde |-> "n~"]

\* What an entity stands for is looked at again.
BugEntityAt(text, i) ==
  IF i + 2 <= Len(text) /\ text[i] = "&" /\ text[i + 2] = ";" /\ text[i + 1] \in DOMAIN Named
  THEN [char |-> Named[text[i + 1]], next |-> i + 2] ELSE [char |-> text[i], next |-> i + 1]

\* What stands at i, and where to go on: behind an entity, or behind a '&'
\* that begins none.
EntityAt(text, i) ==
  IF i + 2 <= Len(text) /\ text[i] = "&" /\ text[i + 2] = ";" /\ text[i + 1] \in DOMAIN Named
  THEN [char |-> Named[text[i + 1]], next |-> i + 3] ELSE [char |-> text[i], next |-> i + 1]
DecodeEntities(text) ==
  LET from[i \in 1..(Len(text) + 1)] ==
        IF i > Len(text) THEN << >> ELSE <<EntityAt(text, i).char>> \o from[EntityAt(text, i).next]
  IN from[1]

(***************************************************************************)
(* extract                                                                 *)
(***************************************************************************)

Scanning == [title |-> << >>, text |-> << >>, links |-> << >>, base |-> NoHref,
             noindex |-> FALSE, nofollow |-> FALSE,
             open |-> NoHref, from |-> 0, inTitle |-> FALSE, skipping |-> "", over |-> FALSE]

\* Takes the open link, if there is one.
LinkClosed(s) ==
  IF s.open = NoHref THEN s
  ELSE [s EXCEPT !.links = Append(@, [href |-> s.open, text |-> Stripped(SubSeq(s.text, s.from + 1, Len(s.text)))]),
                 !.open = NoHref]

\* An <a> inside an <a> closes it.
AnchorOpened(s, tag) ==
  LET closed == LinkClosed(s)
  IN IF tag.href = NoHref \/ tag.nofollow THEN closed
     ELSE [closed EXCEPT !.open = tag.href, !.from = Len(s.text)]

MetaRead(s, tag) ==
  [s EXCEPT !.noindex = @ \/ tag.robots \cap {"noindex", "none"} # {},
            !.nofollow = @ \/ tag.robots \cap {"nofollow", "none"} # {}]

\* A code element swallows everything up to the next end tag whose name begins
\* with its own.
TagRead(s, tag) ==
  CASE s.skipping # "" ->
         IF tag.closing /\ BeginsWith(tag.name, s.skipping) THEN [s EXCEPT !.skipping = ""] ELSE s
    [] s.skipping = "" /\ tag.name \in Skipped /\ ~tag.closing -> [s EXCEPT !.skipping = tag.name]
    [] s.skipping = "" /\ tag.name = "title" -> [s EXCEPT !.inTitle = ~tag.closing]
    [] s.skipping = "" /\ tag.name = "base" /\ ~tag.closing ->
         [s EXCEPT !.base = IF @ = NoHref THEN tag.href ELSE @]
    [] s.skipping = "" /\ tag.name = "meta" /\ ~tag.closing -> MetaRead(s, tag)
    [] s.skipping = "" /\ tag.name = "a" -> IF tag.closing THEN LinkClosed(s) ELSE AnchorOpened(s, tag)
    [] s.skipping = "" /\ tag.name \in Blocks -> [s EXCEPT !.text = Collapsed(@, <<Gap>>)]
    [] OTHER -> s

TextRead(s, chunk) ==
  [s EXCEPT !.text = Collapsed(@, chunk), !.title = IF s.inTitle THEN Collapsed(@, chunk) ELSE @]

\* One thing after another, until something is not closed.
ItemRead(s, item) ==
  CASE s.over -> s
    [] ~s.over /\ item.kind = "tag" -> TagRead(s, item)
    [] ~s.over /\ item.kind = "text" /\ s.skipping = "" -> TextRead(s, item.text)
    [] ~s.over /\ item.kind = "open comment" /\ s.skipping = "" -> [s EXCEPT !.over = TRUE]
    [] ~s.over /\ item.kind = "open tag" /\ s.skipping = "" ->
         [s EXCEPT !.text = Collapsed(@, item.text), !.over = TRUE]
    [] OTHER -> s

ExtractPage(page) ==
  LET s == LinkClosed(FoldLeft(ItemRead, Scanning, page))
  IN [title |-> DecodeEntities(Stripped(s.title)), text |-> DecodeEntities(Stripped(s.text)),
      links |-> [i \in DOMAIN s.links |-> [s.links[i] EXCEPT !.text = DecodeEntities(@)]],
      base |-> s.base, noindex |-> s.noindex, nofollow |-> s.nofollow]

(***************************************************************************)
(* resolve: a URL that was joined to its base becomes the one that stands  *)
(* for all that fetch the same.                                            *)
(***************************************************************************)

Tracking == {"utm", "gclid"}
DefaultPort == [http |-> 80, https |-> 443]
NotFetched == [scheme |-> "not fetched"]

WithoutTracking(query) ==
  LET kept[i \in 0..Len(query)] ==
        IF i = 0 THEN << >>
        ELSE IF query[i] \in Tracking THEN kept[i - 1] ELSE Append(kept[i - 1], query[i])
  IN kept[Len(query)]

\* A host is its name and the dots behind it.  One dot goes, and nothing is
\* fetched if nothing is left.
HostLeft(url) == url.host # "" \/ url.dots # 1
DotStripped(dots) == IF dots > 0 THEN dots - 1 ELSE dots

\* The port stays although it is the scheme's.
BugResolve(url) ==
  IF url.scheme \notin DOMAIN DefaultPort \/ url.onlyFragment \/ ~HostLeft(url) THEN NotFetched
  ELSE [url EXCEPT !.fragment = FALSE, !.path = IF @ = "" THEN "/" ELSE @, !.dots = DotStripped(@),
                   !.query = WithoutTracking(@), !.asked = WithoutTracking(url.query) # << >>]

Resolve(url) ==
  IF url.scheme \notin DOMAIN DefaultPort \/ url.onlyFragment \/ ~HostLeft(url) THEN NotFetched
  ELSE [url EXCEPT !.fragment = FALSE,
                   !.port = IF @ = DefaultPort[url.scheme] THEN 0 ELSE @,
                   !.path = IF @ = "" THEN "/" ELSE @,
                   !.dots = DotStripped(@),
                   !.query = WithoutTracking(@),
                   !.asked = WithoutTracking(url.query) # << >>]
=============================================================================
