------------------------------ MODULE GpuDetect ------------------------------
(***************************************************************************)
(* base/gpu/scripts/tizenos-gpu-detect.sh as a function: what it writes to *)
(* gpu-info.env for a machine, and what tizenos-display-fallback.sh        *)
(* decides from that file.                                                 *)
(*                                                                         *)
(* A machine is                                                            *)
(*   cards    its DRM cards in the order the glob lists them, each with a  *)
(*            vendor and a PCI class, "vga" or "3d"                        *)
(*   modules  the kernel modules that are loaded                           *)
(*   version  the NVIDIA driver's version, a sequence of numbers           *)
(*   modeset  whether nvidia_drm/parameters/modeset reads Y or 1           *)
(*   nodes    the cards that have a render node, by index                  *)
(*   lspci    whether the command is installed                             *)
(***************************************************************************)
EXTENDS Naturals, Sequences

KnownIds == {"nvidia", "amd", "intel", "virtual"}   \* the PCI ids of the case
                                                    \* "vbox" and "other" are not
Vendors == KnownIds \cup {"unknown"}

Has(m, vendor) == \E i \in 1 .. Len(m.cards) : m.cards[i].vendor = vendor
HasVga(m) == \E i \in 1 .. Len(m.cards) : m.cards[i].class = "vga"

\* version_ge: majors, then minors, where ${v#*.} of a version without a dot is
\* the version itself.
VersionGe(v, w) ==
    LET minor(x) == IF Len(x) = 1 THEN x[1] ELSE x[2]
    IN \/ v[1] > w[1]
       \/ v[1] = w[1] /\ minor(v) >= minor(w)

\* The first member of a list that is in a set.
FirstOf(list, set, none) ==
    LET passed == SelectSeq(list, LAMBDA x : x \in set)
    IN IF passed = <<>> THEN none ELSE Head(passed)

\* The lspci branch, for a primary card whose id the case does not list. The
\* pattern amd|ati|radeon also matches "VGA compatible controller" and "Corporation",
\* which NVIDIA and Intel cards have in their names.
LspciVendor(m) ==
    LET matchesAti == HasVga(m) \/ Has(m, "nvidia") \/ Has(m, "intel")
    IN FirstOf(<<"nvidia", "amd", "intel", "virtual">>,
               {v \in KnownIds : m.lspci /\ (Has(m, v) \/ (v = "amd" /\ matchesAti))}, "unknown")

\* detect_vendor_and_driver, the vendor
Vendor(m) ==
    IF m.cards[1].vendor \in KnownIds THEN m.cards[1].vendor ELSE LspciVendor(m)

\* detect_vendor_and_driver, the driver
Driver(m) ==
    CASE Vendor(m) = "nvidia"  -> FirstOf(<<"nvidia", "nouveau">>, m.modules, "none")
      [] Vendor(m) = "amd"     -> FirstOf(<<"amdgpu", "radeon">>, m.modules, "unknown")
      [] Vendor(m) = "intel"   -> FirstOf(<<"i915", "xe">>, m.modules, "unknown")
      [] Vendor(m) = "virtual" -> FirstOf(<<"virtio-gpu", "vmwgfx", "qxl">>, m.modules, "modesetting")
      [] OTHER                 -> "unknown"

\* detect_prime
Prime(m) == Len(m.cards) >= 2 /\ (Has(m, "intel") \/ Has(m, "amd")) /\ Has(m, "nvidia")

\* find_render_node: the primary card's, or the first there is; 0 is none.
RenderNode(m) ==
    IF m.nodes = {} THEN 0 ELSE CHOOSE i \in m.nodes : \A j \in m.nodes : i <= j

\* check_wayland_capabilities: GBM, Wayland and explicit sync
Mesa(m) == Vendor(m) \in {"amd", "intel", "virtual"} \/ Driver(m) = "nouveau"
Gbm(m) == Mesa(m) \/ (Driver(m) = "nvidia" /\ VersionGe(m.version, <<495>>))
Capable(m) == Mesa(m) \/ (Driver(m) = "nvidia" /\ Gbm(m) /\ m.modeset)
ExplicitSync(m) == ~Mesa(m) /\ Capable(m) /\ VersionGe(m.version, <<545>>)
XwaylandAccel(m) == Capable(m) /\ Vendor(m) # "virtual"

\* main: without a card only the defaults are written.
NoGpu == [vendor |-> "unknown", driver |-> "unknown", virtual |-> FALSE, gbm |-> FALSE,
          capable |-> FALSE, sync |-> FALSE, accel |-> FALSE, prime |-> FALSE,
          node |-> 0, count |-> 0]

Detect(m) ==
    IF m.cards = <<>> THEN NoGpu
    ELSE [vendor |-> Vendor(m), driver |-> Driver(m), virtual |-> Vendor(m) = "virtual",
          gbm |-> Gbm(m), capable |-> Capable(m), sync |-> ExplicitSync(m),
          accel |-> XwaylandAccel(m), prime |-> Prime(m), node |-> RenderNode(m),
          count |-> Len(m.cards)]

-----------------------------------------------------------------------------
(* make_display_decision, from the moment the file has been read.           *)

\* What to launch, with which renderer, and which Xorg configuration to fall
\* back to: "never" when X11 is not tried after Wayland.
Wayland(renderer, xorg) == [mode |-> "wayland", renderer |-> renderer, xorg |-> xorg]
X11(xorg) == [mode |-> "x11", renderer |-> "none", xorg |-> xorg]

\* The Xorg configuration a vendor's Wayland session falls back to.
XorgFor(info) ==
    CASE info.vendor = "nvidia" /\ info.driver = "nvidia"   -> "nvidia"
      [] info.vendor = "nvidia" /\ info.driver = "nouveau"  -> "modesetting"
      [] info.vendor \in {"amd", "intel"}                   -> "modesetting"
      [] OTHER                                              -> "none"

Decide(info, force) ==
    CASE force = "x11"      -> X11("none")
      [] force = "wayland"  -> Wayland("auto", "never")
      [] force = "none" /\ info.capable  -> Wayland("auto", XorgFor(info))
      [] force = "none" /\ ~info.capable /\ info.virtual -> Wayland("pixman", "none")
      [] force = "none" /\ ~info.capable /\ ~info.virtual ->
             IF info.vendor = "nvidia" /\ info.driver = "nvidia" /\ ~info.gbm
             THEN X11("nvidia") ELSE X11("modesetting")

=============================================================================
