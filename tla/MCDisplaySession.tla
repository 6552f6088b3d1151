-------------------------- MODULE MCDisplaySession ---------------------------
(* DisplaySession on machines of each kind the decision tells apart.         *)
EXTENDS CompositorGpu

Machine(cards, modules, version, modeset, nodes) ==
    [cards |-> cards, modules |-> modules, version |-> version, modeset |-> modeset,
     nodes |-> nodes, lspci |-> TRUE]
Vga(vendor) == [vendor |-> vendor, class |-> "vga"]

Headless == Machine(<<>>, {}, <<0>>, FALSE, {})
Hybrid == Machine(<<Vga("nvidia"), Vga("intel")>>, {"nvidia", "i915"}, <<535, 54>>, TRUE, {1, 2})
NoModeset == Machine(<<Vga("nvidia")>>, {"nvidia"}, <<535, 54>>, FALSE, {})
Legacy == Machine(<<Vga("nvidia")>>, {"nvidia"}, <<470, 82>>, TRUE, {1})
Boundary == Machine(<<Vga("nvidia")>>, {"nvidia"}, <<495, 44>>, TRUE, {1})
VmPlain == Machine(<<Vga("virtual")>>, {"vmwgfx"}, <<0>>, FALSE, {})
VirtualBox == Machine(<<Vga("vbox")>>, {}, <<0>>, FALSE, {})

MCMachines == {Headless, VirtualBox, Hybrid, Legacy, VmPlain}
MCVersions == {Legacy, Boundary, Hybrid, NoModeset}

=============================================================================
