-------------------------- MODULE MCTileserveClient --------------------------
(* Two syncs and a RemoteMaps request over two servers' worth of clients. *)
EXTENDS TileserveClient, TLC

\* Clients are identities, and so are the two syncs.
Symmetric == Permutations(Clients) \cup Permutations(Syncers)

=============================================================================
