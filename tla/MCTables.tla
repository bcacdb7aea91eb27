------------------------------ MODULE MCTables ------------------------------
(* The object tables of the window, drawing and COM layers, on small tables:   *)
(* one part of the program at a time.                                          *)
EXTENDS GdiRegions, GdiObjects, ListItems, WindowData, TLC
VARIABLE part
mcVars == <<part, rgnVars, gdiVars, menuVars, atomVars, comVars, ctrlVars, treeVars, dataVars, iml>>
MCGrid == (0..2) \X (0..1)
MCBoxes == {<<0, 0, 3, 2>>, <<3, 0, 0, 1>>, <<0, 0, 1, 2>>, <<1, 1, 2, 2>>}
MCShapes == {{<<0, 0>>, <<2, 1>>}, {<<0, 0>>, <<1, 0>>, <<2, 0>>, <<0, 1>>}, {<<0, 0>>, <<2, 0>>}}
MCAtomNames == {<<"a">>, <<"A">>, <<"a", "b", "c">>, <<"A", "b", "d">>}
MCFold(c) == IF c = "A" THEN "a" ELSE c
MCBsType == (1 :> "radio") @@ (2 :> "radio") @@ (3 :> "radio") @@ (4 :> "check") @@ (5 :> "three")
MCBsParent == (1 :> 1) @@ (2 :> 1) @@ (3 :> 2) @@ (4 :> 1) @@ (5 :> 2)
MCSysCommands == <<8, 9>>
MCSources == {<<1>>, <<1, 2>>, <<2, 1, 2, 2, 1>>}
R1 == CHOOSE h \in Regions : TRUE
Idle(p) == /\ p # "regions" => UNCHANGED rgnVars
           /\ p # "objects" => UNCHANGED gdiVars
           /\ p # "menus" => UNCHANGED menuVars
           /\ p # "atoms" => UNCHANGED atomVars
           /\ p # "com" => UNCHANGED comVars
           /\ p # "controls" => UNCHANGED ctrlVars
           /\ p # "tree" => UNCHANGED treeVars
           /\ p # "data" => UNCHANGED dataVars
           /\ p # "images" => UNCHANGED iml
Few(n) == Cardinality(owned') <= n
MCInit == /\ RgnInit /\ GdiInit /\ MenusInit /\ AtomsInit /\ ComInit /\ CtrlInit /\ TreeInit /\ DataInit /\ ImlInit
          /\ part \in {"regions", "clip", "window", "dcs", "saves", "palettes", "frames", "menus", "bars", "atoms", "com", "lists", "buttons", "tree",
                       "props", "names", "classes", "scroll", "images"}
MCNext ==
    /\ \/ part = "regions" /\ RegionOps /\ Idle("regions")
       \/ part = "clip" /\ (ClipOps(R1) \/ \E r \in Boxes : SetRectRgn(R1, r) \/ ExtCreateRegion(R1, r, 2)) /\ Idle("regions")
       \/ part = "window" /\ (WindowOps(R1) \/ \E r \in Boxes : SetRectRgn(R1, r)) /\ Idle("regions")
       \/ part = "dcs" /\ (LifeOps \/ MakeOps \/ \E d \in DCs : SelectOps(d)) /\ Few(3) /\ Idle("objects")
       \/ part = "saves" /\ (CreateCompatibleDC \/ CreateSolidBrush \/ (\E h \in Objects \ Selected : DeleteObject(h)) \/ \E d \in DCs : SaveOps(d) \/ SelectOps(d) \/ ModeOps(d)) /\ Few(2) /\ Idle("objects")
       \/ part = "palettes" /\ (LifeOps \/ StockOps \/ CreatePalette \/ \E d \in DCs : PaletteOps(d)) /\ Few(2) /\ Idle("objects")
       \/ part = "frames" /\ (LifeOps \/ WindowFrameOps \/ MakeOps \/ \E d \in DCs : SelectOps(d)) /\ Few(2) /\ Idle("objects")
       \/ part = "menus" /\ MenuEdits({1, 2}) /\ Cardinality(mine') <= 2 /\ Idle("menus")
       \/ part = "bars" /\ MenuBars /\ Idle("menus")
       \/ part = "atoms" /\ AtomOps(2) /\ Idle("atoms")
       \/ part = "com" /\ ComOps /\ Idle("com")
       \/ part = "lists" /\ CtrlOps /\ Idle("controls")
       \/ part = "buttons" /\ ButtonOps /\ Idle("controls")
       \/ part = "tree" /\ TreeOps /\ Idle("tree")
       \/ part = "props" /\ PropOps /\ Idle("data")
       \/ part = "names" /\ (ClipOps3 \/ \E k \in DataKeys : RegisterWindowMessageA(k)) /\ Idle("data")
       \/ part = "classes" /\ ClassOps /\ Idle("data")
       \/ part = "scroll" /\ ScrollOps /\ Idle("data")
       \/ part = "images" /\ ImlOps /\ Idle("images")
    /\ UNCHANGED part
MCSpec == MCInit /\ [][MCNext]_mcVars
=============================================================================
