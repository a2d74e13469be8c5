-------------------------- MODULE MCRoutesService ---------------------------
(* Values for the constants of RoutesService: three of the twelve facets.  *)
EXTENDS RoutesService

ThreeFacets == {"country", "region", "terrain"}
=============================================================================
