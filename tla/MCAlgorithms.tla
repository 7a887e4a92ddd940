---------------------------- MODULE MCAlgorithms ----------------------------
(***************************************************************************)
(* Small inputs of each kind, with the cases the code distinguishes: names *)
(* that match better and worse, patterns with stars and ends, links inside *)
(* scripts and links that are never closed, letters that fold and that     *)
(* become two, numbers and lengths at the edges of their encodings, terms  *)
(* that begin one another.                                                 *)
(***************************************************************************)
EXTENDS Algorithms

\* Sequences up to a length.
UpTo(S, n) == UNION {[1..k -> S] : k \in 0..n}

Group(names, rules) == [names |-> names, rules |-> rules]
Disallow(path) == [field |-> "disallow", value |-> path]
Allow(path) == [field |-> "allow", value |-> path]
Delay == [field |-> "crawl-delay", value |-> 2]
MCGroup == {Group(<<<<"*">>>>, <<Disallow(<<"/">>), Allow(<<"/", "a">>)>>),
            Group(<<<<"*">>>>, <<Disallow(<<"*", "a", "$">>)>>),
            Group(<<<<"b">>, <<"z">>>>, <<Disallow(<<"/", "*", "b">>), Allow(<<"/", "a", "b">>)>>),
            Group(<<<<"b">>>>, <<Disallow(<<"/", "a">>), Allow(<<"/", "*">>), Delay>>),
            Group(<<<<"b", "o">>>>, <<Disallow(<< >>)>>),
            Group(<<<<"z">>>>, <<Disallow(<<"/", "b", "$">>), Allow(<<"/", "b">>)>>)}
MCRobotsGroups == UpTo(MCGroup, 3)
MCAgents == {<<"b">>, <<"b", "o", "t">>}
MCPaths == {<<"/">> \o s : s \in {<< >>, <<"a">>, <<"b">>, <<"a", "b">>, <<"a", "b", "a">>, <<"b", "a", "b">>}}

Tag(name, closing, href) ==
  [kind |-> "tag", name |-> name, closing |-> closing, href |-> href, nofollow |-> FALSE, robots |-> {}]
Said(text) == [kind |-> "text", text |-> text]
MCItems == {Tag("a", FALSE, "h1"), Tag("a", FALSE, NoHref), [Tag("a", FALSE, "h2") EXCEPT !.nofollow = TRUE],
            Tag("a", TRUE, NoHref), Tag("p", FALSE, NoHref), Tag("script", FALSE, NoHref),
            Tag("script", TRUE, NoHref), Tag("scripts", TRUE, NoHref), Said(<<" ", "x", " ">>), Said(<<"&", "amp", ";", "lt", ";">>),
            [kind |-> "open comment"], [kind |-> "open tag", text |-> <<"<">>]}
MCPages == UpTo(MCItems, 4)

Url(scheme, host, dots, port, path, query) ==
  [scheme |-> scheme, host |-> host, dots |-> dots, port |-> port, path |-> path, query |-> query,
   asked |-> dots # 1 \/ query # << >>, fragment |-> dots = 1, onlyFragment |-> FALSE]
MCUrls == {Url(scheme, "host", dots, port, path, query) :
             scheme \in {"http", "https"}, dots \in 0..1, port \in {0, 80, 443}, path \in {"", "/", "/a"},
             query \in {<< >>, <<"utm">>, <<"q", "gclid">>}}
          \cup {Url("http", host, dots, 0, "", query) :
                 host \in {"host", "www"}, dots \in 0..3, query \in {<< >>, <<"utm">>}}
          \cup {Url("http", "", dots, 80, "", << >>) : dots \in 1..3}
          \cup {[Url("mailto", "", 0, 0, "", << >>) EXCEPT !.onlyFragment = f] : f \in BOOLEAN}
MCDrawSequences == {<<5, 5, 5, 5>>, <<4, 3, 5, 5>>, <<1, 5, 5, 5>>, <<3, 5, 2, 5>>}

MCTexts == {<<"n~", "i", WideSpace, "E", " ", " ", "N", "i", " ", "n~">>,
            <<"e", " ", "i", " ", "i", " ", "i", " ", "n", " ", "n", " ", "n", " ", "n", " ", "e", "e">>,
            <<"n~", "n~", "n~", "n~", "n~", " ", " ", "e", " ", "n~", "n~", "n~", "n~", "n~">>,
            <<"i", " ", "e", "n~", "e", "n~", "e", "n~", "e", "n~", "e">>,
            <<"Idot", " ", "n">>, << >>, <<"-">>}
           \cup [1..4 -> {"n", "i", " "}]
MCTypings == UpTo({"n~", "i", "E", " ", Quote, Minus}, 4) \cup {<<"Idot", " ", "n">>, <<"n", " ", "i", " ", "e">>}

Values(encoding) ==
  CASE encoding.is = "varint" -> {0, 3, 4, 31}
    [] encoding.is = "u32" -> {0, 4, 15}
    [] encoding.is = "u8" -> {0, 2}
    [] encoding.is = "f32" -> {0, 7}
    [] encoding.is \in {"str", "raw"} -> {<< >>, <<1>>, <<2, 9, 4, 2>>, <<1, 1, 1, 1, 1, 1>>}
    [] encoding = List(<<Varint>>) -> {<< >>, <<<<4>>>>, <<<<0>>, <<15>>>>}
    [] encoding = List(<<Str>>) -> {<< >>, <<<< <<5>> >>, << << >> >>>>}
    [] encoding = List(<<Str, Varint>>) -> {<< >>, <<<< <<5>>, 4>>>>}
    [] encoding = Shares -> {<< >>, <<<< <<5>>, 7>>, << << >>, 1>>>>, [i \in 1..6 |-> << << >>, 1>>]}
    [] OTHER -> {<< >>, << <<<<<< <<5>>, 7>>>>>>, <<<< >>>> >>}
FieldsOf(k) ==
  FoldLeft(LAMBDA so, i : {f @@ (k.names[i] :> v) : f \in so, v \in Values(k.encodings[i])},
           {<< >>}, [i \in DOMAIN k.names |-> i])
MessagesOf(kinds) == UNION {{[kind |-> kind, fields |-> f] : f \in FieldsOf(kinds[kind])} : kind \in DOMAIN kinds}
MCRequests == MessagesOf(RequestWritten)
MCResponses == MessagesOf(ResponseWritten)

Doc(uri, length, rank) == [uri |-> uri, length |-> length, rank |-> rank]
List2 == [docs |-> 2, blocks |-> <<[first |-> 1, at |-> 0, bound |-> 9]>>, cells |-> <<1, 7, 2>>]
List3 == [docs |-> 3, blocks |-> <<[first |-> 1, at |-> 0, bound |-> 4], [first |-> 3, at |-> 3, bound |-> 6]>>,
          cells |-> <<1, 7, 2, 3, 8>>]
MCDictionaries == UNION {[T -> {List2, List3}] : T \in SUBSET {<<1>>, <<1, 2>>, <<2>>, <<2, 1>>}}
MCBuilt == {[docs |-> docs, lists |-> lists, params |-> 1] :
              docs \in UpTo({Doc(<< >>, 0, 0), Doc(<<6, 6>>, 3, 5)}, 3), lists \in MCDictionaries}
=============================================================================
