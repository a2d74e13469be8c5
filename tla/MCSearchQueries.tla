-------------------------- MODULE MCSearchQueries ---------------------------
(* Values for the constants of SearchQueries; "colour" is not a facet.      *)
EXTENDS SearchQueries

SomeFacets == {"country", "district", "terrain", "colour"}
SomeLimits == {-1, 0, 100, 101}
(* Two words; two spaces; an operator too many; (word word)&word.          *)
SomePhrases == {<<>>, <<<<"text">>, <<"text">>>>, <<<<"text">>, <<>>>>, <<<<"text", "&">>>>,
                <<<<"(", "text">>, <<"text", ":*", ")", "&", "text">>>>}
(* One id that is the key of a search for everything.                      *)
SomeIDs == {<<"id", "route">>, Key(<<"total">>, WithDefaults(Empty))}
TwoFacets == {"difficulty", "terrain"}
=============================================================================
