----------------------------- MODULE MCCatalogSync -----------------------------
(***************************************************************************)
(* An instance of CatalogSync for TLC: three catalog files, one of them    *)
(* with a path git quotes, and a file elsewhere in the repository; four    *)
(* urls of which one moves, one tag.                                       *)
(***************************************************************************)
EXTENDS CatalogSync, TLC

CONSTANTS a, b, c, d, u1, u2, u3, u4, tag

entry(u, enabled, protection, names) ==
  [url |-> u, enabled |-> enabled, fetchprotection |-> protection, tags |-> names]

catalog(company, protection, list) ==
  [kind |-> "catalog", company |-> company, fetchprotection |-> protection, feeds |-> list]

\* The third file lies outside json/ and has the name of the second; the path of
\* the fourth is quoted.
MCNameOf == <<a, b, b, d>>

\* The first file may rename its company, list a feed twice, be broken or
\* absent; u1 moves between the files.
Firsts ==
  {Absent,
   catalog(a, 1, <<entry(u1, TRUE, NoProtection, {tag}), entry(u2, TRUE, 2, {})>>),
   catalog(Nobody, 2, <<entry(u1, FALSE, 0, {})>>),
   catalog(c, 1, <<entry(u2, TRUE, 0, {}), entry(u2, FALSE, 1, {tag})>>)}

ThirdUrl == catalog(b, 0, <<entry(u3, TRUE, NoProtection, {})>>)
Seconds == {Absent, ThirdUrl, catalog(b, 1, <<entry(u1, FALSE, 1, {})>>)}

Quoted == catalog(d, 0, <<entry(u4, TRUE, 0, {})>>)

MCRevisions ==
  {<<x, y, Absent, Absent>> : x \in Firsts, y \in Seconds}
  \cup {<<Absent, y, Broken, Absent>> : y \in Seconds \ {Absent}}
  \cup {<<Broken, ThirdUrl, Absent, Absent>>, <<Absent, ThirdUrl, Absent, Quoted>>}
===============================================================================
