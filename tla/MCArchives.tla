----------------------------- MODULE MCArchives -----------------------------
(***************************************************************************)
(* A file with an index, a layer that a later version extends and a layer    *)
(* nobody knows; and a document of every kind of member, empty ones too.     *)
(* Markers and proxies are moved apart from that.                           *)
(***************************************************************************)
EXTENDS Archives, ArchiveMarkers

Member(label, t) == [label |-> label, type |-> t, since |-> 1]
Bare(t)          == Member("", t)

\* RawDescriptor and the like: a member came with version 2.
LayerData ==
    Versioned(Record(<<Member("name", Text), Member("weights", DynArray(Number)),
                       [label |-> "lods", type |-> Vector(Number), since |-> 2]>>))

Layer ==
    Transparent(Record(<<Member("desc", HereOf("layer")), Bare(Anchor("layerBase")), Bare(LayerData),
                         Bare(EndOf("layerSize", "layerBase"))>>))

UnknownLayer ==
    Transparent(Record(<<Member("xxxx", HereOf("unknown")), Bare(Anchor("unknownBase")), Bare(Blob("unknownSize")),
                         Bare(EndOf("unknownSize", "unknownBase"))>>))

Index(offset, size) == Record(<<Member("offset", Offset(offset)), Member("size", Size(size))>>)

File ==
    Record(<<Member("index", Record(<<Member("a", Index("layer", "layerSize")),
                                      Member("b", Index("unknown", "unknownSize"))>>)),
             Bare(Layer), Bare(UnknownLayer), Member("eof", Array(Char, 2))>>)

Rotation == Record(<<Member("x", Byte), Member("y", Number)>>)

Document ==
    Record(<<Member("none", Record(<<>>)), Member("sign", Char), Member("rotations", Vector(Rotation)),
             Member("metadata", Vector(Pair(Text, Number))), Member("lists", Vector(Vector(Byte))),
             Member("axes", Versioned(Array(Byte, 2))), Member("last", Byte)>>)

MCTypes == [file |-> File, document |-> Document]

FileObject(name, weights, lods, bytes) ==
    [bytes |-> Len(bytes),
     object |-> <<<<<<0, 0>>, <<0, 0>>>>, <<0, 0, <<name, weights, lods>>, 0>>, <<0, 0, bytes, 0>>, <<5, 6>>>>]

DocumentObject(rotations, metadata, lists, last) ==
    [bytes |-> 0, object |-> <<<<>>, 7, rotations, metadata, lists, <<1, 2>>, last>>]

MCObjects ==
    [file |-> {FileObject(name, weights, lods, bytes) :
                  name \in {<<>>, <<1, 2>>}, weights \in {<<>>, <<258>>, <<1, 258, 7>>}, lods \in {<<>>, <<3>>},
                  bytes \in {<<>>, <<200>>, <<17, 34, 51, 255>>}},
     document |-> {DocumentObject(rotations, metadata, lists, last) :
                      rotations \in {<<>>, <<<<1, 260>>, <<0, 3>>>>}, metadata \in {<<>>, <<<<<<4>>, 9>>>>},
                      lists \in {<<>>, <<<<>>, <<8>>>>}, last \in {0, 9}}]

\* Nothing, or a longer file
MCOldBytes == {<<>>, [i \in 1 .. 80 |-> 99]}

-----------------------------------------------------------------------------
\* No archive is in use.
Idle ==
    /\ format = "binary" /\ type = "file" /\ version = 1
    /\ source = FileObject(<<>>, <<>>, <<>>, <<>>)
    /\ stream = <<>> /\ loaded = <<>>
    /\ cut = FALSE /\ ok = TRUE /\ loadedAs = 1 /\ phase = "idle"

NoMarkers ==
    /\ built = {} /\ proxies = {}
    /\ place = <<>> /\ proxyOf = <<>> /\ points = <<>> /\ aims = <<>>

MCInit == (Init /\ NoMarkers) \/ (Idle /\ MarkersInit)

MCNext ==
    \/ Next /\ UNCHANGED markerVars
    \/ phase = "idle" /\ MarkersNext /\ UNCHANGED vars

MCSpec == MCInit /\ [][MCNext]_<<vars, markerVars>>

=============================================================================
