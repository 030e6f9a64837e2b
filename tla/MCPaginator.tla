---------------------------- MODULE MCPaginator ----------------------------
(***************************************************************************)
(* Two walks, two items on a page, and a list of up to four items: full    *)
(* pages, a partial last page and an empty one.                            *)
(***************************************************************************)
EXTENDS Paginator
============================================================================
