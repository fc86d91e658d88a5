----------------------------- MODULE ModelCheck ----------------------------
(***************************************************************************)
(* inspect: the structural check a downloaded GLB passes before it becomes *)
(* a validated model.  The file is whatever the provider sent: each step   *)
(* reads one more declaration of it, and refuses it or goes on.  Sizes and *)
(* offsets are small numbers of bytes; the sums the code forms of them fit *)
(* their 64 bits (the declarations have 63, the product saturates).        *)
(***************************************************************************)
EXTENDS Naturals, FiniteSets, Sequences

CONSTANTS Sizes,        \* byte counts and offsets a file may declare
          Strides,      \* byteStride values, besides none (0)
          MaxCount,     \* elements of an accessor
          MaxTriangles, \* GlbBudget.max_triangles
          MaxTexture,   \* GlbBudget.max_texture_dimension
          NoBin         \* no BIN chunk

ASSUME ModelCheckAssumption ==
    /\ Sizes \subseteq Nat /\ Strides \subseteq Nat \ {0}
    /\ {MaxCount, MaxTriangles, MaxTexture} \subseteq Nat

VARIABLES glb  \* what is known of the file

modelCheckVars == <<glb>>

HeaderLen == 12
ChunkHeaderLen == 8

Read(step, fields) ==
    glb' = [f \in DOMAIN glb \cup DOMAIN fields |->
               IF f = "step" THEN step
               ELSE IF f \in DOMAIN fields THEN fields[f] ELSE glb[f]]

Refuse == glb' = [step |-> "refused"]

ModelCheckInit == glb = [step |-> "container"]

-----------------------------------------------------------------------------
(* read_container                                                          *)

ChunkKinds == {"JSON", "BIN", "other"}
Chunks == [kind : ChunkKinds, length : Sizes]
ChunkLists == UNION {[1 .. n -> Chunks] : n \in 0 .. 2}

\* Where the data of chunk n starts.
DataOffset(chunks, n) ==
    IF n = 1 THEN HeaderLen + ChunkHeaderLen
    ELSE HeaderLen + 2 * ChunkHeaderLen + chunks[1].length

FileLen(chunks) ==
    IF chunks = <<>> THEN HeaderLen
    ELSE DataOffset(chunks, Len(chunks)) + chunks[Len(chunks)].length

\* A JSON chunk that is not empty, then at most one BIN chunk, in words of
\* four bytes.
WellChunked(chunks) ==
    /\ chunks # <<>>
    /\ chunks[1].kind = "JSON" /\ chunks[1].length > 0
    /\ \A n \in 2 .. Len(chunks) : chunks[n].kind = "BIN"
    /\ \A n \in DOMAIN chunks : chunks[n].length % 4 = 0

BinOf(chunks) ==
    IF Len(chunks) < 2 THEN NoBin
    ELSE [offset |-> DataOffset(chunks, 2), length |-> chunks[2].length]

\* magic and version; the declared length; the chunks, cut off or not.
ReadContainer ==
    /\ glb.step = "container"
    /\ \E chunks \in ChunkLists, glTF2 \in BOOLEAN, cut \in {0, 4}, declared \in {0, 4} :
         LET len == FileLen(chunks) - cut
         IN  IF /\ glTF2 /\ len = FileLen(chunks) - declared
                /\ WellChunked(chunks) /\ cut = 0
             THEN Read("layout", [bin |-> BinOf(chunks), len |-> len])
             ELSE Refuse

-----------------------------------------------------------------------------
(* check_asset_and_extensions, Layout::new                                 *)

\* One embedded buffer that fills the BIN chunk but for its padding, or none.
ReadBuffers ==
    /\ glb.step = "layout"
    /\ LET binLen == IF glb.bin = NoBin THEN 0 ELSE glb.bin.length
       IN  \/ Read("geometry", [buffer |-> NoBin])
           \/ \E length \in Sizes, embedded \in BOOLEAN :
                IF embedded /\ length <= binLen /\ binLen - length < 4
                THEN Read("geometry", [buffer |-> length]) ELSE Refuse
           \/ Refuse  \* another version, a required extension, two buffers

BufferViews == [offset : Sizes, length : Sizes, stride : Strides \cup {0}]

\* A bufferView inside the buffer, its stride a legal one.
ViewAccepted(view) ==
    /\ glb.buffer # NoBin
    /\ view.offset + view.length <= glb.buffer
    /\ view.stride # 0 => view.stride \in 4 .. 252 /\ view.stride % 4 = 0

-----------------------------------------------------------------------------
(* accessor_layout                                                         *)

\* size: bytes of a component; components: of an element.
Accessors == [view : BufferViews, offset : Sizes, size : {1, 2, 4},
              components : {1, 3}, count : 0 .. MaxCount, sparse : BOOLEAN]

Element(a) == a.size * a.components
Stride(a) == IF a.view.stride = 0 THEN Element(a) ELSE a.view.stride

\* Mutant: the start of the last element has to be inside.
SpanOfStarts(a) == IF a.count = 0 THEN a.offset ELSE a.offset + (a.count - 1) * Stride(a)

\* The bytes of the view up to the end of the last element.
Span(a) ==
    IF a.count = 0 THEN a.offset
    ELSE a.offset + (a.count - 1) * Stride(a) + Element(a)

AccessorAccepted(a) ==
    /\ ViewAccepted(a.view)
    /\ ~a.sparse
    /\ Stride(a) >= Element(a)
    /\ a.offset % a.size = 0
    /\ (a.view.offset + a.offset) % a.size = 0
    /\ Span(a) <= a.view.length

LayoutOf(a) ==
    [start |-> a.view.offset + a.offset, stride |-> Stride(a),
     element |-> Element(a), size |-> a.size, count |-> a.count]

-----------------------------------------------------------------------------
(* collect_geometry: one primitive                                         *)

ReadPositions ==
    /\ glb.step = "geometry"
    /\ \/ \E v \in BufferViews, offset \in Sizes, count \in 0 .. MaxCount, sparse \in BOOLEAN :
            LET a == [view |-> v, offset |-> offset, size |-> 4, components |-> 3,
                      count |-> count, sparse |-> sparse]
            IN  IF AccessorAccepted(a) /\ count > 0
                THEN Read("indices", [positions |-> LayoutOf(a)]) ELSE Refuse
       \/ Refuse  \* no primitive, no POSITION, no FLOAT VEC3

\* Points stand for the modes that form no triangle.
Modes == {0, 4, 5, 6}

\* Triangles that count indices or vertices form in a mode.
Triangles(mode, count) ==
    CASE mode = 4      -> count \div 3
      [] mode \in {5, 6} -> IF count > 2 THEN count - 2 ELSE 0
      [] OTHER         -> 0

WithinBudget(triangles) == triangles > 0 /\ triangles <= MaxTriangles

\* Without indices the vertices are drawn in order.
DrawVertices(mode) ==
    /\ glb.step = "indices"
    /\ LET count == glb.positions.count
       IN  IF (mode = 4 => count % 3 = 0) /\ WithinBudget(Triangles(mode, count))
           THEN Read("images", [triangles |-> Triangles(mode, count), indices |-> NoBin])
           ELSE Refuse

DrawIndices(mode) ==
    /\ glb.step = "indices"
    /\ \E a \in [view : BufferViews, offset : Sizes, size : {1, 2, 4}, components : {1},
                 count : 0 .. MaxCount, sparse : {FALSE}] :
         IF /\ AccessorAccepted(a)
            /\ mode = 4 => a.count % 3 = 0
            /\ WithinBudget(Triangles(mode, a.count))
         THEN Read("images", [triangles |-> Triangles(mode, a.count),
                              indices |-> LayoutOf(a)])
         ELSE Refuse

-----------------------------------------------------------------------------
(* check_images, check_positions, check_indices                            *)

\* Images are embedded PNG or JPEG, of a size within the budget.
ReadImages ==
    /\ glb.step = "images"
    /\ \/ Read("values", [image |-> NoBin])
       \/ \E v \in BufferViews, dimension \in 0 .. MaxTexture + 1, embedded \in BOOLEAN :
            IF embedded /\ ViewAccepted(v) /\ dimension \in 1 .. MaxTexture
            THEN Read("values", [image |-> [start |-> v.offset, length |-> v.length]])
            ELSE Refuse

\* Every position is finite and every index names one.
ReadValues ==
    /\ glb.step = "values"
    /\ \E largest \in 0 .. MaxCount, finite \in BOOLEAN :
         IF finite /\ (glb.indices # NoBin => largest < glb.positions.count)
         THEN Read("accepted", [largest |-> IF glb.indices = NoBin
                                            THEN glb.positions.count - 1 ELSE largest])
         ELSE Refuse

ModelCheckNext ==
    \/ ReadContainer \/ ReadBuffers \/ ReadPositions
    \/ \E mode \in Modes : DrawVertices(mode) \/ DrawIndices(mode)
    \/ ReadImages \/ ReadValues

ModelCheckSpec == ModelCheckInit /\ [][ModelCheckNext]_modelCheckVars

-----------------------------------------------------------------------------
ModelCheckTypeOK ==
    /\ glb.step \in {"container", "layout", "geometry", "indices", "images",
                     "values", "accepted", "refused"}
    /\ glb.step \notin {"container", "refused"} =>
          glb.bin = NoBin \/ glb.bin.offset + glb.bin.length = glb.len

\* Bytes n .. n + size - 1 of the BIN chunk exist and start at a multiple of
\* the component's size in the file.
Readable(n, size, component) ==
    /\ glb.bin # NoBin
    /\ n + size <= glb.bin.length
    /\ glb.bin.offset + n + size <= glb.len
    /\ (glb.bin.offset + n) % component = 0

\* A reader of an accepted model that draws it - every element of the two
\* accessors, every vertex an index names, every image - stays in the file
\* and reads whole, aligned components; and the model has a face to draw.
AcceptedModelsAreDrawable ==
    glb.step = "accepted" =>
        /\ \A a \in {glb.positions, glb.indices} \ {NoBin} : \A n \in 0 .. a.count - 1 :
              Readable(a.start + n * a.stride, a.element, a.size)
        /\ Readable(glb.positions.start + glb.largest * glb.positions.stride, 12, 4)
        /\ glb.image # NoBin => Readable(glb.image.start, glb.image.length, 1)
        /\ glb.triangles \in 1 .. MaxTriangles
=============================================================================
