-------------------------- MODULE MCReceiverFiles --------------------------
(* ReceiverFiles in a small save directory, for TLC: a, c and e are files,  *)
(* b and d folders.                                                         *)
EXTENDS ReceiverFiles, TLC
CONSTANTS o1, o2, o3, o4, o5
MCNames == o1 :> "a" @@ o2 :> "b" @@ o3 :> "c" @@ o4 :> "d" @@ o5 :> "e"
MCSizes == o1 :> 2 @@ o2 :> 1 @@ o3 :> 0 @@ o4 :> 1 @@ o5 :> 1
MCTwo == o1 :> "a" @@ o2 :> "a"
MCDerived == o1 :> "b" @@ o2 :> "b.zip"
MCTwoSizes == o1 :> 2 @@ o2 :> 2
Try(p, q) == 0 :> p @@ 1 :> q
MCNumbered ==
  "a" :> Try("a", "a(1)") @@ "c" :> Try("c", "c(1)") @@ "e" :> Try("e", "e(1)") @@
  "b" :> Try("b", "b(1)") @@ "b.zip" :> Try("b.zip", "b(1).zip") @@
  "b(1).zip" :> Try("b(1).zip", "b(1)(1).zip") @@
  "d" :> Try("d", "d(1)") @@ "d.zip" :> Try("d.zip", "d(1).zip") @@
  "d(1).zip" :> Try("d(1).zip", "d(1)(1).zip")
MCZip == "b" :> "b.zip" @@ "b(1)" :> "b(1).zip" @@ "d" :> "d.zip" @@ "d(1)" :> "d(1).zip"
MCPart ==
  "a" :> "a.part" @@ "a(1)" :> "a(1).part" @@ "c" :> "c.part" @@ "c(1)" :> "c(1).part" @@
  "e" :> "e.part" @@ "e(1)" :> "e(1).part" @@
  "b.zip" :> "b.zip.part" @@ "b(1).zip" :> "b(1).zip.part" @@
  "b(1)(1).zip" :> "b(1)(1).zip.part" @@
  "d.zip" :> "d.zip.part" @@ "d(1).zip" :> "d(1).zip.part" @@
  "d(1)(1).zip" :> "d(1)(1).zip.part"
MCPaths == DOMAIN MCPart \cup {MCPart[p] : p \in DOMAIN MCPart} \cup DOMAIN MCZip
==============================================================================
