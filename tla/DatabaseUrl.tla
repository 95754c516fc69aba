---------------------------- MODULE DatabaseUrl ----------------------------
(***************************************************************************)
(* core/config.py: the URL of a Neon dashboard made into one for asyncpg,  *)
(* and what migrations/env.py, ConfigParser and asyncpg make of it.  A URL *)
(* is its scheme, whether what comes before the query has a percent sign   *)
(* (an escaped password), and the parameters of its query.                 *)
(***************************************************************************)
EXTENDS FiniteSets

LibpqOnly == {"sslmode", "channel_binding"}

\* Keyword arguments of SQLAlchemy's asyncpg dialect and of asyncpg.connect,
\* and one they do not have.
Keywords == {"prepared_statement_cache_size"}
Params   == LibpqOnly \cup Keywords \cup {"options"}

Urls == [scheme : {"postgres", "postgresql", "postgresql+asyncpg"},
         percent : BOOLEAN,
         params : SUBSET Params]

\* Variant: only the scheme is rewritten.
SwapScheme(url) ==
  [url EXCEPT !.scheme = IF @ = "postgresql" THEN "postgresql+asyncpg" ELSE @]

\* urlencode escapes the equals sign in options=endpoint=...
to_asyncpg_url(url) ==
  [scheme  |-> IF url.scheme = "postgresql" THEN "postgresql+asyncpg" ELSE url.scheme,
   percent |-> url.percent \/ "options" \in url.params,
   params  |-> url.params \ LibpqOnly]

\* set_main_option: the configuration file gives a percent sign a meaning.
SetMainOption(url) == ~ url.percent

Connects(url) ==
  url.scheme = "postgresql+asyncpg" /\ url.params \subseteq Keywords

\* The URLs of the dashboards: for these the conversion is meant to be enough.
NeonUrls ==
  {url \in Urls : /\ url.scheme \in {"postgresql", "postgresql+asyncpg"}
                  /\ ~ url.percent
                  /\ url.params \subseteq LibpqOnly \cup Keywords}
=============================================================================
