------------------------------ MODULE FishDir ------------------------------
(***************************************************************************)
(* The automaton that persistence/fish-dir/fish-dir.sh builds out of       *)
(* directories and symbolic links: standing in a directory, one may follow *)
(* any of its links, whose name is the character drawn.  The paths from A  *)
(* draw the fish <><_ and ><>_ one after another.                          *)
(***************************************************************************)
VARIABLES dir,     \* the directory one stands in
          drawn    \* the name of the link followed last

\* ln -s ../<to> '<from>/<name>', as <<from, name, to>>
links == { <<"A", "<", "B">>,
           <<"B", ">", "C">>,
           <<"C", "<", "D">>,
           <<"A", ">", "E">>,
           <<"E", "<", "F">>,
           <<"F", ">", "D">>,
           <<"D", "underscore", "A">> }

Init == dir = "A" /\ drawn = "nothing"

Follow(l) == dir = l[1] /\ drawn' = l[2] /\ dir' = l[3]

Next == \E l \in links : Follow(l)

Spec == Init /\ [][Next]_<<dir, drawn>>
=============================================================================
