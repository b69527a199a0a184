---------------------------- MODULE ComponentGraph ----------------------------
(***************************************************************************)
(* A product's component graph: what a refresh of the contract makes of    *)
(* its nodes and edges, and which edges are in force.  Nodes and edges     *)
(* come from several sources, and an edge is a row of its own for each.    *)
(* Names, owners, versions and confidences are left out, and so is the age *)
(* at which an unverified row counts as stale; nothing in this code makes  *)
(* a manual node, the one kind that a refresh would leave alone.           *)
(***************************************************************************)
EXTENDS Integers

CONSTANTS Root, Repo  \* keys of the product's own two nodes

Owns == <<Root, Repo, "owns">>

\* f's values before g's; @@ of the module TLC, which the prover knows nothing of.
Over(f, g) == [x \in DOMAIN f \cup DOMAIN g |-> IF x \in DOMAIN f THEN f[x] ELSE g[x]]

\* Nodes: key -> [source, freshness]; edges: <<link, source>> -> freshness,
\* a link being <<from, to, relationship>>.
Empty == [x \in {} |-> x]
Nothing == [nodes |-> Empty, edges |-> Empty]

Current(source) == [source |-> source, freshness |-> "current"]

\* The rows that a seed registers; neither has been verified.
Seeded ==
  [nodes |-> [k \in {Root, Repo} |-> [source |-> "seed", freshness |-> "unknown"]],
   edges |-> [row \in {<<Owns, "seed">>} |-> "unknown"]]

\* Declared edges between nodes that there are, known ones or stale ones too.
Linked(g, d) == {e \in d.edges : {e[1], e[2]} \subseteq DOMAIN g.nodes \cup {Root, Repo} \cup d.nodes}

\* What a refresh brings up to date: what is declared, and the product's own
\* nodes with the edge between them.
DeclaredNodes(d) == [k \in d.nodes |-> Current("declared")]
DeclaredEdges(g, d) == [row \in Linked(g, d) \X {"declared"} |-> "current"]
OwnNodes == [k \in {Root, Repo} |-> Current("repo-metadata")]
OwnEdge == [row \in {<<Owns, "repo-metadata">>} |-> "current"]

\* A mutant: what the contract no longer declares stays as it was.
KeepUndeclared(g, d) ==
  [nodes |-> Over(DeclaredNodes(d), Over(OwnNodes, g.nodes)),
   edges |-> Over(DeclaredEdges(g, d), Over(OwnEdge, g.edges))]

\* Declared rows that are no longer declared.
Undeclared(g, d) == {k \in DOMAIN g.nodes : g.nodes[k].source = "declared"} \ (d.nodes \cup {Root, Repo})
Unlinked(g, d) == {row \in DOMAIN g.edges : row[2] = "declared" /\ row[1] \notin Linked(g, d)}

\* Declared rows go over the product's own ones; a declared row that is no longer declared is kept,
\* as stale.  A declaration that cannot be read declares nothing.
Refreshed(g, d) ==
  [nodes |-> Over(DeclaredNodes(d), Over(OwnNodes,
               [k \in DOMAIN g.nodes |->
                  IF k \in Undeclared(g, d) THEN [g.nodes[k] EXCEPT !.freshness = "stale"] ELSE g.nodes[k]])),
   edges |-> Over(DeclaredEdges(g, d), Over(OwnEdge,
               [row \in DOMAIN g.edges |-> IF row \in Unlinked(g, d) THEN "stale" ELSE g.edges[row]]))]

Priority(source) ==
  CASE source = "declared" -> 300 [] source = "repo-metadata" -> 200 [] source = "seed" -> 150

\* Of the edges between two nodes those of the best source are in force, rows
\* that are stale only where all are.
Candidates(g, row) ==
  LET between == {r \in DOMAIN g.edges : <<r[1][1], r[1][2]>> = <<row[1][1], row[1][2]>>}
      fresh == {r \in between : g.edges[r] # "stale"}
  IN IF fresh = {} THEN between ELSE fresh

Effective(g) ==
  {row \in DOMAIN g.edges :
     row \in Candidates(g, row) /\ \A r \in Candidates(g, row) : Priority(r[2]) <= Priority(row[2])}
=============================================================================
