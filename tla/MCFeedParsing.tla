----------------------------- MODULE MCFeedParsing -----------------------------
(***************************************************************************)
(* Instances of FeedParsing for TLC.                                       *)
(***************************************************************************)
EXTENDS FeedParsing, TLC

word(w) == [kind |-> "word", word |-> w]
date(d) == [kind |-> "date", date |-> d]
html(image) == [kind |-> "image", image |-> image]

node(name, attributes, text) ==
  [name |-> name, attributes |-> attributes, text |-> text, children |-> <<>>]
leaf(name, text) == node(name, <<>>, text)

MCShapeName == [rss |-> "rss", atom |-> "feed", rdf |-> "rdf"]

\* The query of c gives a width of 2, that of b a height of 3.
MCQueryWidth == [x \in {"a", "b", "c", "long", NoUrl} |-> IF x = "c" THEN 2 ELSE 0]
MCQueryHeight == [x \in {"a", "b", "c", "long", NoUrl} |-> IF x = "b" THEN 3 ELSE 0]

img(url, width, height, srcset) ==
  [url |-> url, width |-> width, height |-> height, srcset |-> srcset]

ImageNodes ==
  {node("thumbnail", [url |-> "a", width |-> 1], <<>>),
   node("enclosure", [href |-> "b", width |-> 2, height |-> 1], <<>>),
   node("content", [url |-> "c"], <<html(img("a", 2, 2, <<>>))>>),
   leaf("description", <<html(img("b", 0, 4, <<[url |-> "a", width |-> 3],
                                               [url |-> "c", width |-> 0]>>)), word("s")>>),
   leaf("summary", <<html(img("a", 0, 0, <<>>))>>),
   [name |-> "group", attributes |-> <<>>, text |-> <<>>, children |->
      <<node("img", [src |-> "a", height |-> 5, srcset |-> <<[url |-> "b", width |-> 3]>>], <<>>)>>]}

\* Entries with up to three different images in any order.
Article == <<leaf("title", <<word("t")>>), leaf("link", <<word("a")>>), leaf("pubdate", <<date(6)>>)>>
ImageEntries == {Article \o images : images \in {s \in SeqOf(ImageNodes, 3) : IsInjective(s)}}

Titles == {<<>>, <<leaf("title", <<word("t")>>)>>}
Links == {<<leaf("link", <<word("a")>>)>>,
          <<node("link", [href |-> "b", rel |-> "self"], <<>>)>>,
          <<node("link", [href |-> "b", rel |-> "self"], <<>>), node("link", [href |-> "a"], <<>>)>>,
          <<node("link", [href |-> "long"], <<>>)>>}
\* The limit is 5; a text that is no date hides a date of the same name.
Times == {<<>>,
          <<leaf("updated", <<date(5)>>)>>,
          <<leaf("updated", <<date(5)>>), leaf("pubdate", <<date(4)>>)>>,
          <<leaf("pubdate", <<word("soon")>>), leaf("pubdate", <<date(6)>>), leaf("date", <<date(6)>>)>>}
ArticleEntries == {t \o l \o d : t \in Titles, l \in Links, d \in Times}

\* Every way to give an article its fields, and every order of its images.
MCEntries == ArticleEntries \cup ImageEntries

DatedHead == {<<leaf("updated", <<date(7)>>), leaf("lastbuilddate", <<date(8)>>)>>}
===============================================================================
