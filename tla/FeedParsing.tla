------------------------------ MODULE FeedParsing ------------------------------
(***************************************************************************)
(* What the worker makes of the document of a feed: parse_rss_feed_entries *)
(* finds the entries and their fields, normalize_feed_sources drops old,   *)
(* undated and repeated ones.  A publisher writes the document, entry by   *)
(* entry; the worker parses it.                                            *)
(*                                                                         *)
(* An element has its local name in lower case, its attributes, its text   *)
(* and its children.  A text, with the blanks around it removed, is a      *)
(* sequence of pieces: words, dates, and the <img> tags of HTML that the   *)
(* publisher escaped; the empty text is None.  A dimension is a number, 0  *)
(* when it is missing or has no positive number in it.                     *)
(***************************************************************************)
EXTENDS Naturals, Sequences, SequencesExt

CONSTANTS
  Entries,      \* the entries a publisher may write: sequences of elements
  Heads,        \* what it may write before them
  Shapes,       \* the roots it may choose
  ShapeName,    \* the local name of a root
  MaxEntries,   \* bound: entries in a document
  QueryWidth,   \* the width the query of a url gives
  QueryHeight,  \* its height
  LongUrls,     \* urls of more than 1000 characters
  FirstDate     \* MIN_ARTICLE_PUBLISHED_AT

NoDate == 0
NoUrl == "no url"

VARIABLES
  shape,     \* the root
  head,      \* the elements before the entries
  written,   \* the entries
  result     \* what fetch_feed_result makes of the document

vars == <<shape, head, written, result>>

NoResult == [status |-> "none"]

-------------------------------------------------------------------------------
(* Elements and texts.                                                     *)

Attribute(node, name, default) ==
  IF name \in DOMAIN node.attributes THEN node.attributes[name] ELSE default

Mapped(s, Op(_)) == [i \in DOMAIN s |-> Op(s[i])]

\* Element.iter: the node and what is below it, in the order of the document.
RECURSIVE Iter(_)
Iter(node) == <<node>> \o FlattenSeq(Mapped(node.children, Iter))

\* Element.itertext.
Itertext(node) == FlattenSeq(Mapped(Iter(node), LAMBDA n : n.text))

Named(nodes, names) == SelectSeq(nodes, LAMBDA n : n.name \in names)

\* The first text that is not None.
FirstOf(texts) ==
  LET given == SelectSeq(texts, LAMBDA text : text # <<>>)
  IN  IF given = <<>> THEN <<>> ELSE given[1]

\* _first_text.
FirstText(node, names) == FirstOf(Mapped(Named(node.children, names), Itertext))

\* _strip_html_text.
StripHtml(text) == SelectSeq(text, LAMBDA piece : piece.kind # "image")

ParseDatetime(text) == IF Len(text) = 1 /\ text[1].kind = "date" THEN text[1].date ELSE NoDate

\* _parse_first_datetime: the fields in their order of preference.
ParseFirstDatetime(node, fields) ==
  LET dates == SelectSeq(Mapped(fields, LAMBDA f : ParseDatetime(FirstText(node, {f}))),
                         LAMBDA d : d # NoDate)
  IN  IF dates = <<>> THEN NoDate ELSE dates[1]

-------------------------------------------------------------------------------
(* Images.                                                                 *)

MaxDimension(x, y) == IF x >= y THEN x ELSE y

\* Mutant: a url that is known keeps the dimensions it was first seen with.
Candidate_Once(candidates, url, width, height) ==
  LET found == [url |-> url, width |-> MaxDimension(width, QueryWidth[url]),
                height |-> MaxDimension(height, QueryHeight[url])]
  IN  IF url = NoUrl \/ \E i \in DOMAIN candidates : candidates[i].url = url
      THEN candidates ELSE Append(candidates, found)

\* _append_image_candidate without a srcset: a url that is known is merged.
Candidate(candidates, url, width, height) ==
  LET w == MaxDimension(width, QueryWidth[url])
      h == MaxDimension(height, QueryHeight[url])
      known == {i \in DOMAIN candidates : candidates[i].url = url}
  IN  CASE url = NoUrl -> candidates
        [] url # NoUrl /\ known = {} ->
             Append(candidates, [url |-> url, width |-> w, height |-> h])
        [] OTHER -> [i \in DOMAIN candidates |->
             IF i \in known THEN [candidates[i] EXCEPT !.width = MaxDimension(@, w),
                                                       !.height = MaxDimension(@, h)]
             ELSE candidates[i]]

\* _append_image_candidate: the image, then the candidates of its srcset, which
\* have a width each and the height of the image.
AppendImage(candidates, image) ==
  LET source(found, s) == Candidate(found, s.url, s.width, image.height)
  IN  FoldLeft(source, Candidate(candidates, image.url, image.width, image.height), image.srcset)

ImageOf(node, url) ==
  [url |-> url, width |-> Attribute(node, "width", 0), height |-> Attribute(node, "height", 0),
   srcset |-> Attribute(node, "srcset", <<>>)]

\* The images an element names by itself.
NodeImages(node) ==
  CASE node.name = "img" -> <<ImageOf(node, Attribute(node, "src", NoUrl))>>
    [] node.name \in {"thumbnail", "content", "enclosure", "image"} ->
         <<ImageOf(node, IF Attribute(node, "url", NoUrl) # NoUrl
                         THEN Attribute(node, "url", NoUrl)
                         ELSE Attribute(node, "href", NoUrl))>>
    [] OTHER -> <<>>

\* _append_html_image_candidates.
HtmlImages(text) ==
  Mapped(SelectSeq(text, LAMBDA piece : piece.kind = "image"), LAMBDA piece : piece.image)

\* Every image of an entry, in the order it is looked at.
Images(entry) ==
  FlattenSeq(Mapped(Tail(Iter(entry)), NodeImages))
  \o FlattenSeq(Mapped(<<"encoded", "content", "description", "summary">>,
                       LAMBDA f : HtmlImages(FirstText(entry, {f}))))

Larger(x, y) == x.width > y.width \/ (x.width = y.width /\ x.height > y.height)

\* max(..., key) keeps the first of the largest.
Largest(candidates) ==
  FoldLeft(LAMBDA best, c : IF Larger(c, best) THEN c ELSE best, candidates[1], candidates)

\* _extract_entry_image_url.
ImageUrl(entry) ==
  LET candidates == FoldLeft(AppendImage, <<>>, Images(entry))
      sized == SelectSeq(candidates, LAMBDA c : c.width > 0)
  IN  CASE candidates = <<>> -> NoUrl
        [] sized # <<>> -> Largest(sized).url
        [] OTHER -> candidates[1].url

-------------------------------------------------------------------------------
(* Entries.                                                                *)

\* _extract_entry_url.
EntryUrl(entry) ==
  LET hrefs == SelectSeq(Named(entry.children, {"link"}),
                         LAMBDA link : Attribute(link, "href", NoUrl) # NoUrl)
      alternates == SelectSeq(hrefs, LAMBDA link :
                                Attribute(link, "rel", "alternate") = "alternate")
      text == FirstText(entry, {"link"})
  IN  CASE text # <<>> -> text[1].word
        [] text = <<>> /\ alternates # <<>> -> alternates[1].attributes.href
        [] text = <<>> /\ alternates = <<>> /\ hrefs # <<>> -> hrefs[1].attributes.href
        [] OTHER -> NoUrl

EntrySummary(entry) ==
  FirstOf(<<FirstText(entry, {"summary", "description"}),
            StripHtml(FirstText(entry, {"encoded"})),
            StripHtml(FirstText(entry, {"content"}))>>)

EntryAuthor(entry) ==
  LET authors == Named(entry.children, {"author"})
      inline == IF authors = <<>> THEN <<>>
                ELSE <<StripHtml(FirstText(authors[1], {"name"})),
                       StripHtml(Itertext(authors[1]))>>
  IN  FirstOf(inline \o <<StripHtml(FirstText(entry, {"creator"})),
                          StripHtml(FirstText(entry, {"author"}))>>)

\* _extract_entry_payload for an entry with a title and a url.
Payload(entry) ==
  [title |-> FirstText(entry, {"title"}), url |-> EntryUrl(entry),
   summary |-> EntrySummary(entry), author |-> EntryAuthor(entry),
   published |-> ParseFirstDatetime(entry, <<"pubdate", "published", "updated", "date">>),
   image |-> ImageUrl(entry)]

\* _extract_entry_nodes.
EntryNodes(root) ==
  CASE root.name = "rss" ->
         LET channels == Named(root.children, {"channel"})
         IN  IF channels = <<>> THEN <<>> ELSE Named(channels[1].children, {"item"})
    [] root.name = "feed" -> Named(root.children, {"entry"})
    [] OTHER -> Named(Iter(root), {"item", "entry"})

\* parse_rss_feed_entries.
ParseEntries(root) ==
  SelectSeq(Mapped(EntryNodes(root), Payload), LAMBDA p : p.title # <<>> /\ p.url # NoUrl)

\* _extract_last_modified.
LastModified(root) ==
  LET channels == Named(root.children, {"channel"})
      own == IF root.name = "rss" /\ channels # <<>>
             THEN ParseFirstDatetime(channels[1], <<"lastbuilddate", "pubdate", "updated">>)
             ELSE NoDate
  IN  IF own # NoDate THEN own
      ELSE ParseFirstDatetime(root, <<"updated", "lastbuilddate", "pubdate">>)

\* Mutant: a url is remembered before the date is looked at.
NormalizeEntry_SeenFirst(state, p) ==
  IF p.url \in state.seen THEN state
  ELSE [state EXCEPT !.seen = @ \cup {p.url},
                     !.sources = IF p.published < FirstDate THEN @ ELSE Append(@, p)]

\* One turn of the loop of normalize_feed_sources; NoDate is before any date.
NormalizeEntry(state, p) ==
  IF p.url \in state.seen \/ p.published < FirstDate THEN state
  ELSE [state EXCEPT !.seen = @ \cup {p.url}, !.sources = Append(@, p)]

NormalizeSources(payloads) ==
  FoldLeft(NormalizeEntry, [seen |-> {}, sources |-> <<>>], payloads).sources

-------------------------------------------------------------------------------
(* The publisher and the worker.                                           *)

Element(name, children) == [name |-> name, attributes |-> <<>>, text |-> <<>>, children |-> children]

\* The document of a shape: the entries below a channel, below the root, or
\* further down in a root of another name.
Document(s, before, entries) ==
  LET name == ShapeName[s]
      items == Mapped(entries, LAMBDA c : Element(IF name = "feed" THEN "entry" ELSE "item", c))
  IN  CASE name = "rss" -> Element(name, <<Element("channel", before \o items)>>)
        [] name = "feed" -> Element(name, before \o items)
        [] OTHER -> Element(name, Append(before, Element("list", items)))

Init ==
  /\ shape \in Shapes
  /\ head \in Heads
  /\ written = <<>>
  /\ result = NoResult

WriteEntry(children) ==
  /\ result = NoResult
  /\ Len(written) < MaxEntries
  /\ written' = Append(written, children)
  /\ UNCHANGED <<shape, head, result>>

\* The end of fetch_feed_result.  A url that is too long raises in the schema,
\* and with it the feed is an error.
Parse ==
  /\ result = NoResult
  /\ LET root == Document(shape, head, written)
         sources == NormalizeSources(ParseEntries(root))
         long == \E i \in DOMAIN sources : sources[i].url \in LongUrls
     IN  result' = IF long THEN [status |-> "error"]
                   ELSE [status |-> "success", sources |-> sources,
                         lastModified |-> LastModified(root)]
  /\ UNCHANGED <<shape, head, written>>

Next ==
  \/ \E children \in Entries : WriteEntry(children)
  \/ Parse

Spec == Init /\ [][Next]_vars

-------------------------------------------------------------------------------
(* References.                                                             *)

Parsed == result.status = "success"

\* The date a field of an entry gives: that of the first one with a text.
FieldDate(children, f) ==
  LET own == SelectSeq(children, LAMBDA n : n.name = f /\ Itertext(n) # <<>>)
  IN  IF own = <<>> THEN NoDate ELSE ParseDatetime(Itertext(own[1]))

\* An entry counts when the first readable one of its dates does.
Recent(children) ==
  LET d(f) == FieldDate(children, f)
  IN  \/ d("pubdate") >= FirstDate
      \/ d("pubdate") = NoDate /\ d("published") >= FirstDate
      \/ d("pubdate") = NoDate /\ d("published") = NoDate /\ d("updated") >= FirstDate
      \/ /\ \A f \in {"pubdate", "published", "updated"} : d(f) = NoDate
         /\ d("date") >= FirstDate

Complete(children) ==
  LET entry == Element("item", children)
  IN  EntryUrl(entry) # NoUrl /\ \E i \in DOMAIN children :
        children[i].name = "title" /\ Itertext(children[i]) # <<>>

\* The entry a source comes from: the first of its url that counts.
Counts(k) == Complete(written[k]) /\ Recent(written[k])
Origin(source) ==
  LET same == {k \in DOMAIN written :
                 Counts(k) /\ EntryUrl(Element("item", written[k])) = source.url}
  IN  Element("item", written[CHOOSE k \in same : \A j \in same : k <= j])

\* Every mention of an image by an entry: its url and its two dimensions.
Mentions(entry) ==
  LET of(image) == <<[url |-> image.url, width |-> image.width, height |-> image.height]>>
                   \o Mapped(image.srcset, LAMBDA s : [url |-> s.url, width |-> s.width,
                                                       height |-> image.height])
  IN  SelectSeq(FlattenSeq(Mapped(Images(entry), of)), LAMBDA m : m.url # NoUrl)

\* u is at least as wide as w, and where they are equal at least as high, over
\* all mentions of both.
AtLeast(mentions, u, w) ==
  LET Ws(x) == {mentions[i].width : i \in {i \in DOMAIN mentions : mentions[i].url = x}}
               \cup {QueryWidth[x]}
      Hs(x) == {mentions[i].height : i \in {i \in DOMAIN mentions : mentions[i].url = x}}
               \cup {QueryHeight[x]}
      Dominates(A, B) == \A b \in B : \E a \in A : a >= b
  IN  /\ Dominates(Ws(u), Ws(w))
      /\ Dominates(Ws(w), Ws(u)) => Dominates(Hs(u), Hs(w))

FirstMention(mentions, u) == CHOOSE i \in DOMAIN mentions :
  mentions[i].url = u /\ \A j \in DOMAIN mentions : mentions[j].url = u => i <= j

SizedIn(mentions, u) ==
  QueryWidth[u] > 0 \/ \E i \in DOMAIN mentions : mentions[i].url = u /\ mentions[i].width > 0

\* The image of an article is the one that is largest over all the elements,
\* HTML fragments and srcset lists that mention it, the first of equals, and
\* the first one mentioned when no width is known: merging candidates by url
\* one by one gives the same as looking at all of them.
ImageIsLargest ==
  Parsed =>
    \A source \in ToSet(result.sources) :
      LET mentions == Mentions(Origin(source))
          urls == {mentions[i].url : i \in DOMAIN mentions}
          best == source.image
          sized == {u \in urls : SizedIn(mentions, u)}
      IN  CASE urls = {} -> best = NoUrl
            [] sized # {} ->
                 /\ best \in sized
                 /\ \A u \in sized :
                      /\ AtLeast(mentions, best, u)
                      /\ AtLeast(mentions, u, best) =>
                           FirstMention(mentions, best) <= FirstMention(mentions, u)
            [] OTHER -> best = mentions[1].url

\* No article is lost: a url is stored once, and it is stored whenever one of
\* its entries has a title and a date that counts, also behind entries of the
\* same url that have none, and whatever the shape of the document.
ArticlesAreKept ==
  Parsed =>
    /\ \A i, j \in DOMAIN result.sources :
         i # j => result.sources[i].url # result.sources[j].url
    /\ {result.sources[i].url : i \in DOMAIN result.sources} =
         {EntryUrl(Element("item", written[k])) :
            k \in {k \in DOMAIN written : Counts(k)}}
===============================================================================
