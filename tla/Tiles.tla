--------------------------------- MODULE Tiles ---------------------------------
(***************************************************************************)
(* The local imagery cache (track/tiles.py) and the endpoints that serve   *)
(* it (track/api.py): the files in the directory, the connections kept     *)
(* open to them, and the layers remembered.                                *)
(*                                                                         *)
(* A file is the number it was dropped under, so two files of one name are *)
(* told apart.  An open connection keeps reading the file it was opened    *)
(* on, whatever becomes of the name (SQLite and the file system are        *)
(* external).  The endpoints run on one event loop and do not wait inside  *)
(* a request, so between its two looks only the directory can change.      *)
(***************************************************************************)
EXTENDS Integers, Sequences

CONSTANTS
    Layers,      \* file name stems
    MaxFiles,    \* bound on the files ever dropped
    Zooms,       \* the zooms asked for
    ZoomCeiling  \* ZOOM_CEILING

ASSUME TilesAssumption == MaxFiles \in Nat /\ Zooms \subseteq Int /\ ZoomCeiling \in Nat

VARIABLES
    dropped,   \* the files dropped so far: [name, readable, zoom], as their metadata claim
    file,      \* per name, the file in the directory, 0 if none
    conn,      \* per name, the file the connection reads, 0 if none
    layer,     \* per name, the file whose metadata is remembered, 0 if none
    asked,     \* the layer a tile request has just found, NoLayer outside one
    served,    \* the last answer to a tile request
    gone       \* files a look has found withdrawn

tiles == <<dropped, file, conn, layer, asked, served, gone>>

Metadata == [name : Layers, readable : BOOLEAN, zoom : Zooms]
NoTile == [from |-> 0]
NoLayer == "no layer"

TilesOK ==
    /\ dropped \in Seq(Metadata) /\ Len(dropped) <= MaxFiles
    /\ {file, conn, layer} \subseteq [Layers -> 0..Len(dropped)]
    /\ asked \in Layers \cup {NoLayer}
    /\ served.from \in 0..Len(dropped)
    /\ gone \subseteq DOMAIN dropped

TilesInit ==
    /\ dropped = <<>>
    /\ file = [l \in Layers |-> 0] /\ conn = file /\ layer = file
    /\ asked = NoLayer /\ served = NoTile /\ gone = {}

------------------------------------------------------------------------------
(* The directory.                                                             *)

\* A new file, under a name that may be taken.
Drop ==
    /\ Len(dropped) < MaxFiles
    /\ \E new \in Metadata :
           /\ dropped' = Append(dropped, new)
           /\ file' = [file EXCEPT ![new.name] = Len(dropped) + 1]
    /\ UNCHANGED <<conn, layer, asked, served, gone>>

WithdrawFile(l) ==
    /\ file[l] # 0
    /\ file' = [file EXCEPT ![l] = 0]
    /\ UNCHANGED <<dropped, conn, layer, asked, served, gone>>

------------------------------------------------------------------------------
(* A look at layers `looked`, each [conn, layer] before and after.            *)

\* _forget.  (Variant: the connection stays open.)
Forget(held) == [conn |-> 0, layer |-> 0]
ForgetLayer(held) == [held EXCEPT !.layer = 0]
Forgotten(held) == Forget(held)

\* _connect: the connection there is, or one to the file there is.
ConnectLayer(l, held) == IF held.conn # 0 THEN held.conn ELSE file[l]

\* _read_layer: what cannot be read is forgotten.
ReadLayer(l, held) ==
    LET f == ConnectLayer(l, held)
    IN  IF dropped[f].readable THEN [conn |-> f, layer |-> f] ELSE Forgotten(held)

Look(l) ==
    LET held == [conn |-> conn[l], layer |-> layer[l]]
    IN  IF file[l] = 0 THEN Forgotten(held)
        ELSE IF held.layer # 0 THEN held ELSE ReadLayer(l, held)

LookAt(looked) ==
    /\ conn' = [l \in Layers |-> IF l \in looked THEN Look(l).conn ELSE conn[l]]
    /\ layer' = [l \in Layers |-> IF l \in looked THEN Look(l).layer ELSE layer[l]]
    /\ gone' = gone \cup {f \in DOMAIN dropped :
                            dropped[f].name \in looked /\ file[dropped[f].name] = 0}
    /\ UNCHANGED <<dropped, file>>

\* list_tile_layers: of the names with no file it forgets those it remembers.
ListTileLayers ==
    /\ asked = NoLayer
    /\ LookAt({l \in Layers : file[l] # 0 \/ layer[l] # 0})
    /\ UNCHANGED <<asked, served>>

\* get_tile looks for the layer, and answers 404 when there is none ...
FindLayer(l) ==
    /\ asked = NoLayer
    /\ LookAt({l})
    /\ IF layer'[l] = 0 THEN served' = NoTile /\ UNCHANGED asked
                        ELSE asked' = l /\ UNCHANGED served

\* ... then reads the tile.  _read_layer keeps the zoom within its ceiling.
MaxZoom(f) == LET zoom == dropped[f].zoom
              IN  CASE zoom < 0 -> 0 [] zoom > ZoomCeiling -> ZoomCeiling [] OTHER -> zoom

HasPlace(f, z, x, y) == z \in 0..MaxZoom(f) /\ {x, y} \subseteq 0..(2^z - 1)

\* Rows count up from the south.  A file need not hold every tile.
TileOf(f, z, x, y) ==
    {NoTile} \cup IF HasPlace(f, z, x, y)
                  THEN {[from |-> f, z |-> z, x |-> x, row |-> (2^z - 1) - y]}
                  ELSE {}

GetTile(z, x, y) ==
    /\ asked # NoLayer
    /\ served' \in TileOf(conn[asked], z, x, y)
    /\ asked' = NoLayer
    /\ UNCHANGED <<dropped, file, conn, layer, gone>>

TilesNext ==
    \/ Drop
    \/ \E l \in Layers : WithdrawFile(l) \/ FindLayer(l)
    \/ ListTileLayers
    \/ \E z \in Zooms : \E x, y \in {-1, 0, 1} : GetTile(z, x, y)

TilesSpec == TilesInit /\ [][TilesNext]_tiles

------------------------------------------------------------------------------
(* Properties.                                                                *)

\* Once a look has found a file withdrawn, no tile of it is served again, also
\* not when another file takes its name.
WithdrawnIsGone ==
    [][served' # served => served'.from \notin gone]_tiles

\* "A file dropped into the directory shows up without a restart" (tiles.py):
\* the layer a tile request finds is the file that is there.
DroppedShowsUp ==
    [][asked = NoLayer /\ asked' # NoLayer => layer'[asked'] = file[asked']]_tiles

=============================================================================
