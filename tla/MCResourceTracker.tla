-------------------------- MODULE MCResourceTracker --------------------------
EXTENDS ResourceTracker

MCFamilyOf == [q \in Queues |-> IF q = "compute" THEN "F1" ELSE "F2"]

Box(m, l) == [aspects |-> {"color"}, mips |-> m, layers |-> l]
All == Box(0 .. Top, {0, 1})
Mip0 == Box({0}, {0, 1})
Layer0 == Box({0}, {0})
Corner == Box({0}, {1})

Image(access, stage, layout, box) ==
    [kind |-> "use", res |-> "image", box |-> box, access |-> access, stage |-> stage,
     layout |-> layout, initial |-> "undefined", final |-> "undefined",
     pass |-> FALSE]

Buffer(access, stage, m) ==
    [kind |-> "use", res |-> "buffer", box |-> Box(m, {0}), access |-> access,
     stage |-> stage, layout |-> "undefined", initial |-> "undefined",
     final |-> "undefined", pass |-> FALSE]

ImageExtent(shared) ==
    [kind |-> "extent", res |-> "image", shared |-> shared,
     extent |-> [mips |-> {0, 1}, layers |-> {0, 1}]]

BufferExtent == [kind |-> "extent", res |-> "buffer", shared |-> FALSE,
                 extent |-> [mips |-> 0 .. 2, layers |-> {0}]]

MCDeclared ==
    {<<ImageExtent(FALSE), Image("write", "shader", "general", All)>>,
     <<ImageExtent(TRUE),
       [Image("read", "shader", "general", Mip0) EXCEPT !.initial = "general"]>>,
     <<Image("write", "shader", "general", Mip0), Buffer("read", "vertex", {1, 2})>>,
     <<Image("read", "shader", "sampled", Corner)>>,
     <<Image("read", "fragment", "sampled", Mip0), Image("read", "shader", "sampled", Corner)>>,
     <<[Image("read", "shader", "sampled", Layer0) EXCEPT !.initial = "general"],
       [Image("read", "shader", "sampled", Corner) EXCEPT !.initial = "sampled"]>>,
     <<[Image("write", "output", "attachment", All) EXCEPT
            !.pass = TRUE, !.final = "present"]>>,
     <<BufferExtent, Buffer("write", "shader", {0, 1})>>,
     <<Buffer("read", "shader", {1, 2}), Buffer("write", "transfer", {0})>>,
     <<Buffer("readwrite", "transfer", 0 .. Top)>>}
=============================================================================
