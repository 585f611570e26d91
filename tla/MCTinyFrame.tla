----------------------------- MODULE MCTinyFrame -----------------------------
(***************************************************************************)
(* An instance of TinyFrame: the length field holds up to 3 and sealing    *)
(* adds 1, so that one of the data fits in the clear and not sealed unless *)
(* it is compressed.                                                       *)
(***************************************************************************)
EXTENDS TinyFrame

CONSTANTS short, long

MCData == {short, long}

\* short grows when it is compressed; long shrinks with gzip only.
MCSize == [c \in CompressIds |->
            CASE c = 0 -> [d \in MCData |-> IF d = long THEN 3 ELSE 0]
              [] c = 1 -> [d \in MCData |-> 2]
              [] c = 2 -> [d \in MCData |-> IF d = long THEN 4 ELSE 1]]

Pair(w, r) == [e \in Ends |-> IF e = "writer" THEN w ELSE r]

MCPairs == {Pair("rust", "go"), Pair("go", "rust"), Pair("sdk", "rust"), Pair("rust", "sdk")}

Request(type, flags, tx, d) == [type |-> type, flags |-> flags, tx |-> tx, data |-> d]

MCRequests == {Request(1, 1, 0, long),    \* compressed, in the clear
               Request(0, 4, 1, short),   \* sealed
               Request(1, 4, 0, long),    \* too long only once it is sealed
               Request(2, 7, 0, short)}   \* no such type, no such compression

\* The header of an encrypted frame, of a plain one, and of no frame.
MCHeaders == {4, 8, 3}
=============================================================================
