------------------------- MODULE FileManagerProofs -------------------------
(***************************************************************************)
(* The file manager, for every tree of files and every size of its table.  *)
(* The focus mode and the listing need an invariant each.  The selection   *)
(* rests on the order of the rows: a directory is drawn before what is in  *)
(* it, so expanding or collapsing it leaves the rows before it, and with   *)
(* them its own place, as they were.                                       *)
(***************************************************************************)
EXTENDS FileManager, FiniteSetTheorems, WellFoundedInduction, TLAPS

-----------------------------------------------------------------------------
(* The focus mode: lost is a flag. *)

FocusInv == lost \in BOOLEAN /\ PopupHasWindow

LEMMA FocusInit == Init => FocusInv
  BY DEF Init, FocusInv, PopupHasWindow

\* Every key, item and window that changes the mode keeps the invariant.
LEMMA FocusStep == FocusInv /\ [Next]_vars => FocusInv'
<1> SUFFICES ASSUME FocusInv, [Next]_vars PROVE FocusInv'
  OBVIOUS
<1> USE DEF FocusInv, PopupHasWindow
<1>1. CASE handle_input
  <2>1. PICK in \in Input :
          IF ClickedMode(in.click) = "WRITE" THEN WriteKey(in.key)
          ELSE mode' = ClickedMode(in.click) /\ UNCHANGED <<show_fm, prompt, show_git>>
    BY <1>1 DEF handle_input
  <2>2. lost' = (lost /\ mode = "POPUP" /\ prompt = "none" /\ show_git = "no")
    BY <1>1 DEF handle_input
  <2>3. CASE ClickedMode(in.click) = "WRITE"
    <3>1. mode' = "POPUP" => prompt' # "none" \/ show_git' # "no"
      BY <2>1, <2>3 DEF WriteKey, Nav_show_fm, prompt_ui_config, GitPopup_open
    <3> QED
      BY <3>1, <2>2
  <2>4. CASE ClickedMode(in.click) # "WRITE"
    <3>1. mode' = "POPUP" => mode = "POPUP"
      BY <2>1, <2>4 DEF ClickedMode
    <3> QED
      BY <3>1, <2>1, <2>2, <2>4
  <2> QED
    BY <2>3, <2>4
<1>2. CASE CollectRows
  BY <1>2 DEF CollectRows, windowVars
<1>3. CASE PanelKeys
  BY <1>3 DEF PanelKeys, MoveTo, Activate, windowVars
<1>4. CASE LoadRoot
  BY <1>4 DEF LoadRoot, windowVars
<1>5. CASE ClickRow
  BY <1>5 DEF ClickRow, Activate, windowVars
<1>6. CASE draw_all_top_bar
  BY <1>6 DEF draw_all_top_bar, MenuItem, Nav_show_fm, prompt_ui_config, GitPopup_open
<1>7. CASE draw_gitpopup
  BY <1>7 DEF draw_gitpopup, GitPopup_close
<1>8. CASE draw_prompt_ui
  BY <1>8 DEF draw_prompt_ui, FloatPrompt_execute, Nav_create_new_file, NoDirectory,
     Nav_create_folder, Nav_save, Nav_open_file, SearchEntered
<1>9. CASE OtherProgram
  BY <1>9 DEF OtherProgram, windowVars
<1>10. CASE UNCHANGED vars
  BY <1>10 DEF vars, windowVars
<1> QED
  BY <1>1, <1>2, <1>3, <1>4, <1>5, <1>6, <1>7, <1>8, <1>9, <1>10 DEF Next

\* Keys are never swallowed by a window that is not there, whatever windows were
\* opened over one another, except after a search that found nothing, and after
\* New file or New folder without a working directory.
THEOREM PopupAlwaysHasWindow == Spec => []PopupHasWindow
<1>1. FocusInv => PopupHasWindow
  BY DEF FocusInv
<1> QED
  BY <1>1, FocusInit, FocusStep, PTL DEF Spec

-----------------------------------------------------------------------------
(* The listing: what the tree is made of, and that rows are rows of a tree. *)

TreeInv ==
  /\ disk \subseteq Path /\ created \subseteq disk
  /\ path_root \in {NULL, <<>>} \cup Path
  /\ fm_root # NULL => fm_root \in Tree
  /\ phase = "keys" /\ fm_root = NULL => Len(visible) = 0
  /\ CreatedIsListed

LEMMA TreeInit == Init => TreeInv
  BY DEF Init, TreeInv, CreatedIsListed

\* Without a tree there are no rows.
LEMMA NoTreeNoRows ==
  ASSUME fm_root = NULL PROVE DOMAIN Rows = {} /\ Len(collect_visible_nodes) = 0
<1> DEFINE shown == {n \in Nodes : \A d \in Above(n) \cap Nodes : d \in fm_root.open}
<1>1. shown = {}
  BY DEF Nodes
<1>2. Cardinality(shown) = 0
  BY <1>1, FS_EmptySet
<1>3. Rows = <<>>
  <2> HIDE DEF shown
  <2>1. Rows = [i \in 1 .. Cardinality(shown) |->
           CHOOSE n \in shown : Cardinality({m \in shown : file_node_cmp(m, n)}) = i - 1]
    BY DEF Rows, shown
  <2> QED
    BY <2>1, <1>2
<1> QED
  BY <1>3, SomeVisible DEF collect_visible_nodes

\* A directory that is loaded anew lists what is there, also what was created.
LEMMA BuildListed ==
  ASSUME TreeInv, NEW root \in Path \cup {<<>>}
  PROVE  /\ FileNode_build(root) \in Tree
         /\ \A p \in created : Front(p) \in DOMAIN FileNode_build(root).kids =>
              p \in FileNode_build(root).kids[Front(p)]
<1> DEFINE D == {root} \cap ((Dir \cap disk) \cup {<<>>})
<1>1. [d \in D |-> Entries(d)] \in [D -> SUBSET Path]
  BY DEF Entries, TreeInv
<1>2. D \in SUBSET (Dir \cup {<<>>})
  OBVIOUS
<1>3. FileNode_build(root) =
        [root |-> root, open |-> {}, kids |-> [d \in D |-> Entries(d)]]
  BY DEF FileNode_build
<1>4. FileNode_build(root) \in Tree
  <2> HIDE DEF D
  <2> QED
    BY <1>1, <1>2, <1>3 DEF Tree
<1>5. \A p \in created : Front(p) \in D => p \in Entries(Front(p))
  BY DEF Entries, TreeInv
<1> QED
  BY <1>3, <1>4, <1>5

\* Expanding and collapsing keep the tree and what it lists.
LEMMA ToggleListed ==
  ASSUME TreeInv, fm_root # NULL, NEW dir \in Dir, Toggle(dir), created' = created
  PROVE  fm_root' \in Tree /\ CreatedIsListed'
<1>1. fm_root \in Tree
  BY DEF TreeInv
<1>2. CASE dir \in fm_root.open
  <2>1. fm_root' = [fm_root EXCEPT !.open = @ \ {dir}]
    BY <1>2 DEF Toggle
  <2>2. fm_root' \in Tree /\ fm_root'.kids = fm_root.kids
    BY <2>1, <1>1 DEF Tree
  <2> QED
    BY <2>2 DEF TreeInv, CreatedIsListed
<1>3. CASE dir \notin fm_root.open
  <2> DEFINE kids == FileNode_load_children(fm_root.kids, dir)
  <2>1. fm_root' = [fm_root EXCEPT !.open = @ \cup {dir}, !.kids = kids]
    BY <1>3, <1>1 DEF Toggle, Tree
  <2>2. PICK D \in SUBSET (Dir \cup {<<>>}) : fm_root.kids \in [D -> SUBSET Path]
    BY <1>1 DEF Tree
  <2>3. kids \in [D \cup {dir} -> SUBSET Path]
    BY <2>2 DEF FileNode_load_children, Entries, TreeInv
  <2>4. D \cup {dir} \in SUBSET (Dir \cup {<<>>})
    OBVIOUS
  <2>5. fm_root' \in Tree /\ fm_root'.kids = kids
    <3> HIDE DEF kids
    <3>1. kids \in UNION {[E -> SUBSET Path] : E \in SUBSET (Dir \cup {<<>>})}
      BY <2>3, <2>4
    <3> QED
      BY <1>1, <2>1, <3>1 DEF Tree
  <2>6. \A p \in created : Front(p) \in DOMAIN kids => p \in kids[Front(p)]
    BY <2>2 DEF FileNode_load_children, Entries, TreeInv, CreatedIsListed
  <2> QED
    BY <2>5, <2>6 DEF CreatedIsListed
<1> QED
  BY <1>2, <1>3

\* A node that is entered is in a tree.
LEMMA ActivateListed ==
  ASSUME TreeInv, fm_root # NULL, NEW n, Activate(n), created' = created,
         disk' = disk, phase' # "keys"
  PROVE  TreeInv'
<1>1. CASE n \in Dir /\ Toggle(n) /\ UNCHANGED <<mode, path_root>>
  BY <1>1, ToggleListed DEF TreeInv, Path, Tree
<1>2. CASE n \in File /\ OpenFile(n, disk) /\ mode' = "WRITE" /\ UNCHANGED treeVars
  BY <1>2 DEF TreeInv, OpenFile, Above, Path, treeVars, Tree, CreatedIsListed
<1> QED
  BY <1>1, <1>2 DEF Activate

LEMMA TreeStep == TreeInv /\ [Next]_vars => TreeInv'
<1> SUFFICES ASSUME TreeInv, [Next]_vars PROVE TreeInv'
  OBVIOUS
<1> USE DEF Tree
<1>1. CASE handle_input
  BY <1>1 DEF handle_input, diskVars, treeVars, TreeInv, CreatedIsListed, Path
<1>2. CASE CollectRows
  BY <1>2, NoTreeNoRows DEF CollectRows, diskVars, treeVars, TreeInv,
     CreatedIsListed, Path
<1>3. CASE PanelKeys
  <2>1. CASE HasKeys /\ key = "enter" /\ Activate(visible[selected + 1])
    <3>1. fm_root # NULL
      BY <1>3, <2>1 DEF PanelKeys, HasKeys, TreeInv
    <3> QED
      BY <1>3, <2>1, <3>1, ActivateListed DEF PanelKeys, diskVars
  <2>2. CASE UNCHANGED <<treeVars, path_root>>
    BY <1>3, <2>2 DEF PanelKeys, diskVars, treeVars, TreeInv,
     CreatedIsListed, Path
  <2> QED
    BY <1>3, <2>1, <2>2 DEF PanelKeys, MoveTo
<1>4. CASE LoadRoot
  <2> DEFINE moved == path_root # NULL /\ loaded_root # path_root
             root == IF moved THEN path_root ELSE <<>>
  <2>1. root \in Path \cup {<<>>}
    BY DEF TreeInv
  <2>2. \/ fm_root' = FileNode_build(root)
        \/ UNCHANGED treeVars
    BY <1>4 DEF LoadRoot
  <2>3. phase' # "keys" /\ UNCHANGED <<disk, created, path_root>>
    BY <1>4 DEF LoadRoot, diskVars
  <2>4. CASE fm_root' = FileNode_build(root)
    <3> HIDE DEF root
    <3> QED
      BY <2>1, <2>3, <2>4, BuildListed DEF TreeInv, CreatedIsListed, Path
  <2>5. CASE UNCHANGED treeVars
    BY <2>3, <2>5 DEF TreeInv, CreatedIsListed, treeVars, Path
  <2> QED
    BY <2>2, <2>4, <2>5
<1>5. CASE ClickRow
  <2>1. ASSUME NEW r \in DOMAIN Rows, Activate(Rows[r]) PROVE TreeInv'
    <3>1. fm_root # NULL
      BY <2>1, NoTreeNoRows
    <3> QED
      BY <1>5, <2>1, <3>1, ActivateListed DEF ClickRow, diskVars
  <2>2. CASE UNCHANGED <<treeVars, path_root>>
    BY <1>5, <2>2 DEF ClickRow, diskVars, treeVars, TreeInv,
     CreatedIsListed, Path
  <2> QED
    BY <1>5, <2>1, <2>2 DEF ClickRow
<1>6. CASE draw_all_top_bar
  BY <1>6 DEF draw_all_top_bar, diskVars, treeVars, TreeInv,
     CreatedIsListed, Path
<1>7. CASE draw_gitpopup
  BY <1>7 DEF draw_gitpopup, diskVars, treeVars, TreeInv,
     CreatedIsListed, Path
<1>8. CASE draw_prompt_ui
  <2>1. ASSUME NEW f \in File, Fs_create(f), path_root' = path_root \/ OpenFile(f, disk')
        PROVE  TreeInv'
    BY <1>8, <2>1 DEF draw_prompt_ui, Fs_create, file_manager_refresh,
       OpenFile, Above, TreeInv, CreatedIsListed, Path
  <2>2. ASSUME Fs_create_fails, UNCHANGED path_root PROVE TreeInv'
    BY <1>8, <2>2 DEF draw_prompt_ui, Fs_create_fails, Above, treeVars, TreeInv,
       CreatedIsListed, Path
  <2>3. ASSUME Nav_create_folder, ~NoDirectory PROVE TreeInv'
    BY <1>8, <2>3 DEF draw_prompt_ui, Nav_create_folder, file_manager_refresh,
       TreeInv, CreatedIsListed, Path
  <2>4. CASE Nav_open_file
    BY <1>8, <2>4 DEF draw_prompt_ui, Nav_open_file, OpenFile, Above, treeVars, TreeInv,
       CreatedIsListed, Path
  <2>5. CASE UNCHANGED <<disk, path_root, treeVars, created>>
    BY <1>8, <2>5 DEF draw_prompt_ui, treeVars, TreeInv, CreatedIsListed, Path
  <2>6. ASSUME FloatPrompt_execute PROVE TreeInv'
    <3>1. CASE Nav_create_new_file
      BY <3>1, <2>1, <2>2, <2>5 DEF Nav_create_new_file, NoDirectory
    <3>2. CASE Nav_create_folder
      BY <3>2, <2>3, <2>5 DEF NoDirectory
    <3>3. CASE Nav_save
      BY <3>3, <2>1, <2>2 DEF Nav_save
    <3> QED
      BY <2>4, <2>5, <2>6, <3>1, <3>2, <3>3 DEF FloatPrompt_execute, SearchEntered
  <2> QED
    BY <1>8, <2>5, <2>6 DEF draw_prompt_ui
<1>9. CASE OtherProgram
  BY <1>9, PathsAreTree DEF OtherProgram, treeVars, TreeInv, CreatedIsListed, Path
<1>10. CASE UNCHANGED vars
  BY <1>10 DEF vars, diskVars, treeVars, listVars, TreeInv, CreatedIsListed, Path
<1> QED
  BY <1>1, <1>2, <1>3, <1>4, <1>5, <1>6, <1>7, <1>8, <1>9, <1>10 DEF Next

\* Whatever New file and New folder made is in every directory the tree has
\* loaded, however it was loaded, toggled, freed and loaded again.
THEOREM CreatedAlwaysListed == Spec => []CreatedIsListed
<1>1. TreeInv => CreatedIsListed
  BY DEF TreeInv
<1> QED
  BY <1>1, TreeInit, TreeStep, PTL DEF Spec

-----------------------------------------------------------------------------
(* The order of the rows. *)

\* A nonempty set of naturals has a least element.
LEMMA LeastNatural ==
  ASSUME NEW T \in SUBSET Nat, T # {}
  PROVE  \E k \in T : \A j \in T : k <= j
<1> DEFINE Less == {ss \in Nat \X Nat : ss[1] < ss[2]}
<1>1. IsWellFoundedOn(Less, Nat)
  BY NatLessThanWellFounded DEF OpToRel
<1>2. \A j \in Nat, k \in Nat : j < k => <<j, k>> \in Less
  OBVIOUS
<1>3. \E k \in T : \A j \in T : <<j, k>> \notin Less
  <2> HIDE DEF Less
  <2> QED
    BY <1>1, WFMin
<1>4. PICK k \in T : \A j \in T : ~(j < k)
  <2> HIDE DEF Less
  <2> QED
    BY <1>2, <1>3
<1> QED
  BY <1>4

LEMMA CmpIrreflexive ==
  ASSUME NEW p \in Seq(Nat) PROVE ~file_node_cmp(p, p)
  BY DEF file_node_cmp

LEMMA CmpTransitive ==
  ASSUME NEW p \in Seq(Nat), NEW q \in Seq(Nat), NEW r \in Seq(Nat),
         file_node_cmp(p, q), file_node_cmp(q, r)
  PROVE  file_node_cmp(p, r)
<1>1. PICK k \in DOMAIN q : /\ \A j \in 1 .. k - 1 : j \in DOMAIN p /\ p[j] = q[j]
                            /\ k \in DOMAIN p => p[k] < q[k]
  BY DEF file_node_cmp
<1>2. PICK l \in DOMAIN r : /\ \A j \in 1 .. l - 1 : j \in DOMAIN q /\ q[j] = r[j]
                            /\ l \in DOMAIN q => q[l] < r[l]
  BY DEF file_node_cmp
<1>3. DOMAIN q \subseteq Nat /\ DOMAIN r \subseteq Nat
  OBVIOUS
<1>4. CASE k < l
  <2>1. k \in 1 .. l - 1
    BY <1>4, <1>3
  <2>2. k \in DOMAIN r /\ q[k] = r[k]
    BY <2>1, <1>2
  <2>3. \A j \in 1 .. k - 1 : j \in DOMAIN p /\ p[j] = r[j]
    BY <1>1, <1>2, <1>3, <1>4
  <2> QED
    BY <2>2, <2>3, <1>1 DEF file_node_cmp
<1>5. CASE k = l
  <2>1. \A j \in 1 .. l - 1 : j \in DOMAIN p /\ p[j] = r[j]
    BY <1>1, <1>2, <1>5
  <2>2. l \in DOMAIN p => p[l] < r[l]
    BY <1>1, <1>2, <1>5
  <2> QED
    BY <2>1, <2>2 DEF file_node_cmp
<1>6. CASE l < k
  <2>1. l \in 1 .. k - 1
    BY <1>6, <1>3
  <2>2. l \in DOMAIN p /\ p[l] = q[l]
    BY <2>1, <1>1
  <2>3. l \in DOMAIN q
    BY <2>1
  <2>4. \A j \in 1 .. l - 1 : j \in DOMAIN p /\ p[j] = r[j]
    <3>1. \A j \in 1 .. l - 1 : j \in 1 .. k - 1
      BY <1>3, <1>6
    <3> QED
      BY <1>1, <1>2, <3>1
  <2> QED
    BY <2>2, <2>3, <2>4, <1>2 DEF file_node_cmp
<1> QED
  BY <1>3, <1>4, <1>5, <1>6

LEMMA CmpTotal ==
  ASSUME NEW p \in Seq(Nat), NEW q \in Seq(Nat), p # q
  PROVE  file_node_cmp(p, q) \/ file_node_cmp(q, p)
<1> DEFINE Same(k) == k \in DOMAIN p /\ k \in DOMAIN q /\ p[k] = q[k]
           D == {k \in DOMAIN p \cup DOMAIN q : ~Same(k)}
<1>1. D # {}
  <2> SUFFICES ASSUME \A k \in DOMAIN p \cup DOMAIN q : Same(k) PROVE FALSE
    OBVIOUS
  <2>1. DOMAIN p = DOMAIN q
    OBVIOUS
  <2>2. Len(p) = Len(q)
    BY <2>1
  <2>3. \A k \in 1 .. Len(p) : p[k] = q[k]
    OBVIOUS
  <2> QED
    BY <2>2, <2>3
<1>2. D \in SUBSET Nat
  OBVIOUS
<1>3. PICK k \in D : \A j \in D : k <= j
  <2> HIDE DEF D
  <2> QED
    BY <1>1, <1>2, LeastNatural
<1>4. \A j \in 1 .. k - 1 : Same(j)
  <2> TAKE j \in 1 .. k - 1
  <2>1. j \in DOMAIN p \cup DOMAIN q
    OBVIOUS
  <2>2. j \notin D
    BY <1>2, <1>3
  <2> QED
    BY <2>1, <2>2
<1>5. CASE k \notin DOMAIN p
  BY <1>4, <1>5 DEF file_node_cmp
<1>6. CASE k \notin DOMAIN q
  BY <1>4, <1>6 DEF file_node_cmp
<1>7. CASE k \in DOMAIN p /\ k \in DOMAIN q
  <2>1. p[k] \in Nat /\ q[k] \in Nat /\ p[k] # q[k]
    BY <1>7
  <2>2. CASE p[k] < q[k]
    BY <1>4, <1>7, <2>2 DEF file_node_cmp
  <2>3. CASE q[k] < p[k]
    BY <1>4, <1>7, <2>3 DEF file_node_cmp
  <2> QED
    BY <2>1, <2>2, <2>3
<1> QED
  BY <1>5, <1>6, <1>7

Before(S, n) == {m \in S : file_node_cmp(m, n)}

\* Nodes that are fewer to be drawn before m than before n are drawn before n.
LEMMA BeforeSmaller ==
  ASSUME NEW S \in SUBSET Seq(Nat), IsFiniteSet(S), NEW m \in S, NEW n \in S,
         file_node_cmp(m, n)
  PROVE  Cardinality(Before(S, m)) < Cardinality(Before(S, n))
<1>1. Before(S, m) \subseteq Before(S, n)
  BY CmpTransitive DEF Before
<1>2. m \in Before(S, n) /\ m \notin Before(S, m)
  BY CmpIrreflexive DEF Before
<1>3. IsFiniteSet(Before(S, n)) /\ IsFiniteSet(Before(S, m))
  BY FS_Subset DEF Before
<1>4. Cardinality(Before(S, n)) \in Nat /\ Cardinality(Before(S, m)) \in Nat
  BY <1>3, FS_CardinalityType
<1>5. /\ Cardinality(Before(S, m)) <= Cardinality(Before(S, n))
      /\ Cardinality(Before(S, n)) = Cardinality(Before(S, m)) => Before(S, n) = Before(S, m)
  BY <1>1, <1>3, FS_Subset
<1> QED
  BY <1>2, <1>4, <1>5

\* The number of nodes before a node numbers the nodes from 0, without a gap.
LEMMA BeforeNumbers ==
  ASSUME NEW S \in SUBSET Seq(Nat), IsFiniteSet(S)
  PROVE  /\ Cardinality(S) \in Nat
         /\ \A n \in S : Cardinality(Before(S, n)) \in 0 .. Cardinality(S) - 1
         /\ \A m, n \in S :
              Cardinality(Before(S, m)) = Cardinality(Before(S, n)) => m = n
         /\ \A i \in 0 .. Cardinality(S) - 1 :
              \E n \in S : Cardinality(Before(S, n)) = i
<1> DEFINE c == Cardinality(S)
           f == [n \in S |-> Cardinality(Before(S, n))]
<1>1. c \in Nat
  BY FS_CardinalityType
<1>2. \A n \in S : Cardinality(Before(S, n)) \in 0 .. c - 1
  <2> TAKE n \in S
  <2>1. Before(S, n) \in SUBSET S /\ n \notin Before(S, n)
    BY CmpIrreflexive DEF Before
  <2>2. /\ IsFiniteSet(Before(S, n)) /\ Cardinality(Before(S, n)) <= c
        /\ c = Cardinality(Before(S, n)) => S = Before(S, n)
    BY <2>1, FS_Subset
  <2>3. Cardinality(Before(S, n)) \in Nat
    BY <2>2, FS_CardinalityType
  <2> QED
    BY <1>1, <2>1, <2>2, <2>3
<1>3. \A m, n \in S : Cardinality(Before(S, m)) = Cardinality(Before(S, n)) => m = n
  <2> TAKE m, n \in S
  <2>1. Cardinality(Before(S, m)) \in Nat /\ Cardinality(Before(S, n)) \in Nat
    BY <1>1, <1>2
  <2>2. m # n => file_node_cmp(m, n) \/ file_node_cmp(n, m)
    BY CmpTotal
  <2> QED
    BY <2>1, <2>2, BeforeSmaller
<1>4. f \in Injection(S, 0 .. c - 1)
  BY <1>2, <1>3 DEF Injection, IsInjective
<1>5. IsFiniteSet(0 .. c - 1) /\ Cardinality(0 .. c - 1) = c
  BY <1>1, FS_Interval
<1>6. f \in Surjection(S, 0 .. c - 1)
  <2> HIDE DEF f
  <2> QED
    BY <1>4, <1>5, FS_Injection
<1>7. \A i \in 0 .. c - 1 : \E n \in S : f[n] = i
  <2> HIDE DEF f
  <2> QED
    BY <1>6 DEF Surjection
<1> QED
  BY <1>1, <1>2, <1>3, <1>7

\* The first n elements of a sequence.
LEMMA FirstElements ==
  ASSUME NEW s \in Seq(Nat), NEW n \in 0 .. Len(s)
  PROVE  /\ SubSeq(s, 1, n) \in Seq(Nat) /\ Len(SubSeq(s, 1, n)) = n
         /\ \A i \in 1 .. n : SubSeq(s, 1, n)[i] = s[i]
  OBVIOUS

LEMMA SameElements ==
  ASSUME NEW s \in Seq(Nat), NEW t \in Seq(Nat), Len(s) = Len(t),
         \A i \in 1 .. Len(s) : s[i] = t[i]
  PROVE  s = t
  OBVIOUS

LEMMA PrefixElements ==
  ASSUME NEW p \in Seq(Nat), NEW q \in Seq(Nat)
  PROVE  IsStrictPrefix(p, q) <=>
           Len(p) < Len(q) /\ \A i \in 1 .. Len(p) : p[i] = q[i]
<1>1. Len(p) \in Nat /\ Len(q) \in Nat
  OBVIOUS
<1>2. CASE Len(p) <= Len(q)
  <2>1. Len(p) \in 0 .. Len(q) /\ Len(p) \in 0 .. Len(p)
    BY <1>1, <1>2
  <2>2. /\ SubSeq(p, 1, Len(p)) \in Seq(Nat) /\ Len(SubSeq(p, 1, Len(p))) = Len(p)
        /\ \A i \in 1 .. Len(p) : SubSeq(p, 1, Len(p))[i] = p[i]
    BY <2>1, FirstElements
  <2>3. /\ SubSeq(q, 1, Len(p)) \in Seq(Nat) /\ Len(SubSeq(q, 1, Len(p))) = Len(p)
        /\ \A i \in 1 .. Len(p) : SubSeq(q, 1, Len(p))[i] = q[i]
    BY <2>1, FirstElements
  <2>4. SubSeq(p, 1, Len(p)) = SubSeq(q, 1, Len(p)) <=> \A i \in 1 .. Len(p) : p[i] = q[i]
    <3> DEFINE a == SubSeq(p, 1, Len(p))
               b == SubSeq(q, 1, Len(p))
    <3>1. a = b => \A i \in 1 .. Len(p) : p[i] = q[i]
      BY <2>2, <2>3
    <3>2. ASSUME \A i \in 1 .. Len(p) : p[i] = q[i] PROVE a = b
      <4>1. /\ a \in Seq(Nat) /\ b \in Seq(Nat) /\ Len(a) = Len(b)
            /\ \A i \in 1 .. Len(a) : a[i] = b[i]
        BY <2>2, <2>3, <3>2
      <4> HIDE DEF a, b
      <4> QED
        BY <4>1, SameElements
    <3> QED
      BY <3>1, <3>2
  <2>5. (\A i \in 1 .. Len(p) : p[i] = q[i]) => (p = q <=> Len(p) = Len(q))
    OBVIOUS
  <2> QED
    BY <1>1, <1>2, <2>4, <2>5 DEF IsStrictPrefix, IsPrefix
<1> QED
  BY <1>1, <1>2 DEF IsStrictPrefix, IsPrefix

\* A directory is drawn before what is in it.
LEMMA PrefixFirst ==
  ASSUME NEW d \in Seq(Nat), NEW p \in Seq(Nat), IsStrictPrefix(d, p)
  PROVE  file_node_cmp(d, p)
<1>1. Len(d) < Len(p) /\ \A i \in 1 .. Len(d) : d[i] = p[i]
  BY PrefixElements
<1>2. Len(d) + 1 \in DOMAIN p /\ Len(d) + 1 \notin DOMAIN d
  BY <1>1
<1>3. \A j \in 1 .. (Len(d) + 1) - 1 : j \in DOMAIN d /\ d[j] = p[j]
  BY <1>1
<1> QED
  BY <1>2, <1>3 DEF file_node_cmp

LEMMA PrefixTransitive ==
  ASSUME NEW p \in Seq(Nat), NEW q \in Seq(Nat), NEW r \in Seq(Nat),
         IsStrictPrefix(p, q), IsStrictPrefix(q, r)
  PROVE  IsStrictPrefix(p, r)
<1>1. Len(p) < Len(q) /\ \A i \in 1 .. Len(p) : p[i] = q[i]
  BY PrefixElements
<1>2. Len(q) < Len(r) /\ \A i \in 1 .. Len(q) : q[i] = r[i]
  BY PrefixElements
<1>3. Len(p) \in Nat /\ Len(q) \in Nat /\ Len(r) \in Nat
  OBVIOUS
<1>4. \A i \in 1 .. Len(p) : i \in 1 .. Len(q)
  BY <1>1, <1>3
<1>5. Len(p) < Len(r) /\ \A i \in 1 .. Len(p) : p[i] = r[i]
  BY <1>1, <1>2, <1>3, <1>4
<1> QED
  BY <1>5, PrefixElements

LEMMA FrontIsPrefix ==
  ASSUME NEW p \in Seq(Nat), p # <<>>
  PROVE  Front(p) \in Seq(Nat) /\ IsStrictPrefix(Front(p), p)
<1>1. Len(p) \in Nat \ {0}
  OBVIOUS
<1>2. /\ Front(p) \in Seq(Nat) /\ Len(Front(p)) = Len(p) - 1
      /\ \A i \in 1 .. Len(p) - 1 : Front(p)[i] = p[i]
  <2>1. Len(p) - 1 \in 0 .. Len(p)
    BY <1>1
  <2> QED
    BY <2>1, FirstElements DEF Front
<1> QED
  BY <1>1, <1>2, PrefixElements

-----------------------------------------------------------------------------
(* The rows. *)

RowsOf(S) ==
  [i \in 1 .. Cardinality(S) |->
     CHOOSE n \in S : Cardinality({m \in S : file_node_cmp(m, n)}) = i - 1]

Cut(s) == IF Len(s) <= MAX_VISIBLE THEN s ELSE SubSeq(s, 1, MAX_VISIBLE)

\* A node is on the row of its number, if the table has that row.
LEMMA CutRows ==
  ASSUME NEW S \in SUBSET Seq(Nat), IsFiniteSet(S)
  PROVE  /\ Cut(RowsOf(S)) \in Seq(S) /\ Len(Cut(RowsOf(S))) <= MAX_VISIBLE
         /\ \A i \in 1 .. Len(Cut(RowsOf(S))) :
              /\ Cut(RowsOf(S))[i] \in S
              /\ Cardinality(Before(S, Cut(RowsOf(S))[i])) = i - 1
         /\ \A n \in S : Cardinality(Before(S, n)) < MAX_VISIBLE =>
              /\ Cardinality(Before(S, n)) < Len(Cut(RowsOf(S)))
              /\ Cut(RowsOf(S))[Cardinality(Before(S, n)) + 1] = n
<1> DEFINE c == Cardinality(S)
           R == RowsOf(S)
<1>1. c \in Nat
  BY BeforeNumbers
<1>2. R = [i \in 1 .. c |-> CHOOSE n \in S : Cardinality(Before(S, n)) = i - 1]
  BY DEF RowsOf, Before
<1>3. \A i \in 1 .. c : R[i] \in S /\ Cardinality(Before(S, R[i])) = i - 1
  <2> SUFFICES ASSUME NEW i \in 1 .. c
               PROVE  R[i] \in S /\ Cardinality(Before(S, R[i])) = i - 1
    OBVIOUS
  <2>1. i - 1 \in 0 .. c - 1
    BY <1>1
  <2>2. \E n \in S : Cardinality(Before(S, n)) = i - 1
    BY <2>1, BeforeNumbers
  <2>3. R[i] = CHOOSE n \in S : Cardinality(Before(S, n)) = i - 1
    BY <1>2
  <2> QED
    BY <2>2, <2>3
<1>4. R \in Seq(S) /\ Len(R) = c
  <2>1. R \in [1 .. c -> S]
    BY <1>2, <1>3
  <2> HIDE DEF R
  <2> QED
    BY <1>1, <2>1
<1>5. \A n \in S : LET k == Cardinality(Before(S, n)) IN
        k \in 0 .. c - 1 /\ R[k + 1] = n
  <2> SUFFICES ASSUME NEW n \in S
               PROVE  LET k == Cardinality(Before(S, n)) IN k \in 0 .. c - 1 /\ R[k + 1] = n
    OBVIOUS
  <2> DEFINE k == Cardinality(Before(S, n))
  <2>1. k \in 0 .. c - 1
    BY BeforeNumbers
  <2>2. k + 1 \in 1 .. c /\ (k + 1) - 1 = k
    BY <1>1, <2>1
  <2>3. R[k + 1] \in S /\ Cardinality(Before(S, R[k + 1])) = k
    <3> HIDE DEF k, R
    <3> QED
      BY <1>3, <2>2
  <2>4. R[k + 1] = n
    BY <2>3, BeforeNumbers
  <2> QED
    BY <2>1, <2>4
<1> HIDE DEF R, c
<1>6. /\ Cut(R) \in Seq(S) /\ Len(Cut(R)) = IF c <= MAX_VISIBLE THEN c ELSE MAX_VISIBLE
      /\ \A i \in 1 .. Len(Cut(R)) : Cut(R)[i] = R[i]
  BY <1>1, <1>4, SomeVisible DEF Cut
<1>7. \A i \in 1 .. Len(Cut(R)) : Cut(R)[i] \in S /\ Cardinality(Before(S, Cut(R)[i])) = i - 1
  BY <1>1, <1>3, <1>6, SomeVisible
<1>8. ASSUME NEW n \in S, Cardinality(Before(S, n)) < MAX_VISIBLE
      PROVE  /\ Cardinality(Before(S, n)) < Len(Cut(R))
             /\ Cut(R)[Cardinality(Before(S, n)) + 1] = n
  <2> DEFINE k == Cardinality(Before(S, n))
  <2>1. k \in 0 .. c - 1 /\ R[k + 1] = n
    BY <1>5
  <2> HIDE DEF k
  <2>2. k < MAX_VISIBLE
    BY <1>8 DEF k
  <2>3. k < Len(Cut(R)) /\ Cut(R)[k + 1] = n
    BY <1>1, <1>6, <2>1, <2>2, SomeVisible
  <2> QED
    BY <2>3 DEF k
<1> QED
  BY <1>1, <1>6, <1>7, <1>8, SomeVisible DEF R

NodesOf(t) == IF t = NULL THEN {} ELSE UNION {t.kids[d] : d \in DOMAIN t.kids}

\* The nodes that have a row, in the table or beyond it.
Shown(t) ==
  {n \in NodesOf(t) : \A d \in Above(n) \cap NodesOf(t) : d \in t.open}

Listing(t) == Cut(RowsOf(Shown(t)))

LEMMA RowsAreListing ==
  /\ Nodes = NodesOf(fm_root) /\ Rows = RowsOf(Shown(fm_root))
  /\ collect_visible_nodes = Listing(fm_root)
  /\ collect_visible_nodes' = Listing(fm_root')
  BY DEF Nodes, NodesOf, collect_visible_nodes, Listing, Cut, Rows, RowsOf, Shown

LEMMA ShownIsFinite ==
  ASSUME NEW t \in Tree \cup {NULL}
  PROVE  /\ NodesOf(t) \subseteq Path /\ Shown(t) \subseteq NodesOf(t)
         /\ Shown(t) \in SUBSET Seq(Nat) /\ IsFiniteSet(Shown(t))
<1>1. NodesOf(t) \subseteq Path
  <2>1. CASE t = NULL
    BY <2>1 DEF NodesOf
  <2>2. CASE t \in Tree /\ t # NULL
    <3>1. PICK D \in SUBSET (Dir \cup {<<>>}) : t.kids \in [D -> SUBSET Path]
      BY <2>2 DEF Tree
    <3> QED
      BY <2>2, <3>1 DEF NodesOf
  <2> QED
    BY <2>1, <2>2
<1>2. Shown(t) \subseteq NodesOf(t)
  BY DEF Shown
<1>3. Path \subseteq Seq(Nat) /\ IsFiniteSet(Path)
  BY PathsAreRanks DEF Path
<1>4. Shown(t) \in SUBSET Path
  BY <1>1, <1>2
<1> QED
  BY <1>1, <1>2, <1>3, <1>4, FS_Subset

\* What a row of the table holds, and where a node of the tree is in it.
LEMMA Listed ==
  ASSUME NEW t \in Tree \cup {NULL}
  PROVE  /\ Listing(t) \in Seq(Shown(t)) /\ Len(Listing(t)) <= MAX_VISIBLE
         /\ \A i \in 1 .. Len(Listing(t)) :
              /\ Listing(t)[i] \in Shown(t)
              /\ Cardinality(Before(Shown(t), Listing(t)[i])) = i - 1
         /\ \A n \in Shown(t) : Cardinality(Before(Shown(t), n)) < MAX_VISIBLE =>
              /\ Cardinality(Before(Shown(t), n)) < Len(Listing(t))
              /\ Listing(t)[Cardinality(Before(Shown(t), n)) + 1] = n
  BY ShownIsFinite, CutRows DEF Listing

\* Expanding or collapsing d adds nothing but what is in d.
LEMMA ToggledNodes ==
  ASSUME TreeInv, fm_root # NULL, NEW d \in Dir, Toggle(d)
  PROVE  /\ fm_root' \in Tree /\ fm_root' # NULL
         /\ \A e \in Dir : e # d => (e \in fm_root'.open <=> e \in fm_root.open)
         /\ NodesOf(fm_root) \subseteq NodesOf(fm_root')
         /\ \A p \in NodesOf(fm_root') : p \in NodesOf(fm_root) \/ Front(p) = d
<1> DEFINE kids == FileNode_load_children(fm_root.kids, d)
<1>1. fm_root \in Tree
  BY DEF TreeInv
<1>2. PICK D \in SUBSET (Dir \cup {<<>>}) : fm_root.kids \in [D -> SUBSET Path]
  BY <1>1 DEF Tree
<1>3. CASE d \in fm_root.open
  <2>1. fm_root' = [fm_root EXCEPT !.open = @ \ {d}]
    BY <1>3 DEF Toggle
  <2>2. fm_root' \in Tree /\ fm_root'.kids = fm_root.kids
    BY <2>1, <1>1 DEF Tree
  <2>3. fm_root' # NULL /\ NodesOf(fm_root') = NodesOf(fm_root)
    BY <2>2, NullIsNoValue DEF NodesOf
  <2>4. \A e \in Dir : e # d => (e \in fm_root'.open <=> e \in fm_root.open)
    BY <2>1, <1>1 DEF Tree
  <2> QED
    BY <2>2, <2>3, <2>4
<1>4. CASE d \notin fm_root.open
  <2>1. fm_root' = [fm_root EXCEPT !.open = @ \cup {d}, !.kids = kids]
    BY <1>4, <1>1 DEF Toggle, Tree
  <2>2. /\ kids \in [D \cup {d} -> SUBSET Path]
        /\ \A e \in D : kids[e] = fm_root.kids[e]
        /\ d \notin D => kids[d] = Entries(d)
    BY <1>2 DEF FileNode_load_children, Entries, TreeInv
  <2> HIDE DEF kids
  <2>3. kids \in UNION {[E -> SUBSET Path] : E \in SUBSET (Dir \cup {<<>>})}
    <3>1. D \cup {d} \in SUBSET (Dir \cup {<<>>})
      OBVIOUS
    <3> QED
      BY <2>2, <3>1
  <2>4. fm_root' \in Tree
    BY <2>1, <2>3, <1>1 DEF Tree
  <2>5. fm_root'.kids = kids /\ \A e \in Dir : e # d => (e \in fm_root'.open <=> e \in fm_root.open)
    BY <2>1, <1>1 DEF Tree
  <2>6. fm_root' # NULL
    BY <2>4, NullIsNoValue
  <2>7. /\ NodesOf(fm_root) = UNION {fm_root.kids[e] : e \in D}
        /\ NodesOf(fm_root') = UNION {kids[e] : e \in D \cup {d}}
    <3>1. DOMAIN fm_root.kids = D /\ DOMAIN kids = D \cup {d}
      BY <1>2, <2>2
    <3> QED
      BY <3>1, <2>5, <2>6 DEF NodesOf
  <2>8. NodesOf(fm_root) \subseteq NodesOf(fm_root')
    BY <2>2, <2>7
  <2>9. \A p \in NodesOf(fm_root') : p \in NodesOf(fm_root) \/ Front(p) = d
    BY <2>2, <2>7 DEF Entries
  <2> QED
    BY <2>4, <2>5, <2>6, <2>8, <2>9
<1> QED
  BY <1>3, <1>4

\* What is drawn before a node d does not depend on what is in d.
LEMMA SameBefore ==
  ASSUME NEW t \in Tree, NEW u \in Tree, NEW d \in Dir, d \in Shown(t),
         \A e \in Dir : e # d => (e \in u.open <=> e \in t.open),
         NodesOf(t) \subseteq NodesOf(u),
         \A p \in NodesOf(u) : p \in NodesOf(t) \/ Front(p) = d
  PROVE  d \in Shown(u) /\ Before(Shown(u), d) = Before(Shown(t), d)
<1>1. /\ NodesOf(t) \subseteq Path /\ NodesOf(u) \subseteq Path
      /\ Shown(t) \subseteq NodesOf(t) /\ Shown(u) \subseteq NodesOf(u)
      /\ Path \subseteq Seq(Nat) /\ <<>> \notin Path
  BY ShownIsFinite, PathsAreRanks, PathsAreTree DEF Path
<1>2. \A p \in Path : p \in NodesOf(u) => p \in NodesOf(t) \/ IsStrictPrefix(d, p)
  BY <1>1, FrontIsPrefix
<1>3. ASSUME NEW m \in Path, m = d \/ file_node_cmp(m, d)
      PROVE  m \in Shown(u) <=> m \in Shown(t)
  <2>1. ~IsStrictPrefix(d, m)
    <3>1. d \in Seq(Nat) /\ m \in Seq(Nat)
      BY <1>1 DEF Path
    <3>2. ~file_node_cmp(d, m)
      BY <1>3, <3>1, CmpIrreflexive, CmpTransitive
    <3> QED
      BY <3>1, <3>2, PrefixFirst
  <2>2. m \in NodesOf(u) <=> m \in NodesOf(t)
    BY <2>1, <1>2
  <2>3. \A e \in Above(m) : e \in Dir /\ e # d /\ (e \in NodesOf(u) <=> e \in NodesOf(t))
    <3> TAKE e \in Above(m)
    <3>1. e \in Dir /\ IsStrictPrefix(e, m)
      BY DEF Above
    <3>2. ~IsStrictPrefix(d, e)
      BY <2>1, <3>1, <1>1, PrefixTransitive DEF Path
    <3> QED
      BY <2>1, <3>1, <3>2, <1>2 DEF Path
  <2>4. (\A e \in Above(m) \cap NodesOf(u) : e \in u.open)
        <=> (\A e \in Above(m) \cap NodesOf(t) : e \in t.open)
    BY <2>3
  <2> QED
    BY <2>2, <2>4 DEF Shown
<1>4. d \in Shown(u)
  BY <1>3 DEF Path
<1>5. Before(Shown(u), d) = Before(Shown(t), d)
  BY <1>1, <1>3 DEF Before
<1> QED
  BY <1>4, <1>5

\* The row that was expanded or collapsed stays where it was.
LEMMA ToggleKeepsPlace ==
  ASSUME TreeInv, NEW i \in 1 .. Len(Listing(fm_root)),
         Listing(fm_root)[i] \in Dir, Toggle(Listing(fm_root)[i])
  PROVE  /\ i <= Len(Listing(fm_root'))
         /\ Listing(fm_root')[i] = Listing(fm_root)[i]
<1> DEFINE t == fm_root
           u == fm_root'
           n == Listing(t)[i]
<1>1. t \in Tree \cup {NULL}
  BY DEF TreeInv
<1>2. i \in Nat \ {0} /\ i <= MAX_VISIBLE
  <2>1. Len(Listing(t)) \in Nat /\ Len(Listing(t)) <= MAX_VISIBLE
    BY <1>1, Listed
  <2> QED
    BY <2>1, SomeVisible
<1>3. n \in Shown(t) /\ Cardinality(Before(Shown(t), n)) = i - 1
  BY <1>1, Listed
<1>4. t # NULL
  BY <1>3 DEF Shown, NodesOf
<1>5. u \in Tree /\ n \in Shown(u) /\ Before(Shown(u), n) = Before(Shown(t), n)
  BY <1>3, <1>4, <1>1, ToggledNodes, SameBefore
<1> HIDE DEF n, t, u
<1>6. Cardinality(Before(Shown(u), n)) = i - 1 /\ i - 1 < MAX_VISIBLE
  BY <1>2, <1>3, <1>5, SomeVisible
<1>7. /\ i - 1 < Len(Listing(u)) /\ Listing(u)[(i - 1) + 1] = n
      /\ Len(Listing(u)) \in Nat
  BY <1>5, <1>6, Listed
<1> QED
  BY <1>2, <1>7 DEF n, t, u

-----------------------------------------------------------------------------
(* The selection. *)

\* The row of the node the user chose last is the selected one of the rows as they
\* would be collected now; without a choice it is the first; and keys are handled
\* with rows that are.
SelectionInv ==
  /\ selected \in Nat /\ chosen \in Path \cup {NULL, Unknown}
  /\ visible \in Seq(Path \cup {Freed}) /\ Len(visible) <= MAX_VISIBLE
  /\ chosen \in Path => /\ selected < Len(Listing(fm_root))
                        /\ Listing(fm_root)[selected + 1] = chosen
  /\ chosen = NULL => Len(Listing(fm_root)) = 0 \/ selected = 0
  /\ phase \in {"keys", "load"} /\ Len(Listing(fm_root)) = 0 => selected = 0
  /\ phase = "keys" => /\ visible = Listing(fm_root)
                       /\ Len(visible) = 0 \/ selected < Len(visible)

LEMMA EmptyListing == Len(Listing(NULL)) = 0
<1>1. Shown(NULL) = {}
  BY DEF Shown, NodesOf
<1>2. RowsOf({}) = <<>>
  BY FS_EmptySet DEF RowsOf
<1> QED
  BY <1>1, <1>2, SomeVisible DEF Listing, Cut

LEMMA SelectionInit == Init => SelectionInv
  BY SomeVisible, EmptyListing, NullIsNoValue DEF Init, SelectionInv

\* The rows of a tree are nodes of it.
LEMMA ListingPaths ==
  ASSUME TreeInv
  PROVE  /\ Listing(fm_root) \in Seq(Path) /\ Len(Listing(fm_root)) \in Nat
         /\ Len(Listing(fm_root)) <= MAX_VISIBLE
         /\ \A i \in 1 .. Len(Listing(fm_root)) : Listing(fm_root)[i] \in Nodes
<1>1. fm_root \in Tree \cup {NULL}
  BY DEF TreeInv
<1>2. Shown(fm_root) \subseteq Nodes /\ Nodes \subseteq Path
  BY <1>1, ShownIsFinite, RowsAreListing
<1>3. /\ Listing(fm_root) \in Seq(Shown(fm_root))
      /\ Len(Listing(fm_root)) <= MAX_VISIBLE
      /\ \A i \in 1 .. Len(Listing(fm_root)) : Listing(fm_root)[i] \in Shown(fm_root)
  BY <1>1, Listed
<1> QED
  BY <1>2, <1>3

\* Steps that leave tree and selection alone, and those that forget the choice.
LEMMA SelectionKept ==
  ASSUME SelectionInv, UNCHANGED <<fm_root, listVars>>, phase' # "keys",
         phase' = "load" => phase = "keys"
  PROVE  SelectionInv'
  BY DEF SelectionInv, listVars

LEMMA SelectionForgotten ==
  ASSUME SelectionInv, selected' \in Nat, phase' \notin {"keys", "load"},
         \/ chosen' = Unknown
         \/ chosen' = NULL /\ (fm_root' = NULL \/ selected' = 0),
         visible' = visible \/ visible' = Dangling
  PROVE  SelectionInv'
<1>1. Dangling \in Seq(Path \cup {Freed}) /\ Len(Dangling) = Len(visible)
  BY DEF Dangling, SelectionInv
<1> QED
  BY <1>1, EmptyListing, NullIsNoValue, UnknownIsNoValue DEF SelectionInv, Path

\* The row that is entered stays the selected one.
LEMMA ActivateKeepsRow ==
  ASSUME TreeInv, NEW i \in 1 .. Len(Listing(fm_root)), Activate(Listing(fm_root)[i])
  PROVE  /\ i <= Len(Listing(fm_root')) /\ Len(Listing(fm_root')) \in Nat
         /\ Listing(fm_root')[i] = Listing(fm_root)[i]
<1>1. CASE Listing(fm_root)[i] \in Dir /\ Toggle(Listing(fm_root)[i])
  <2>1. fm_root # NULL
    BY NoTreeNoRows, RowsAreListing
  <2>2. fm_root' \in Tree
    BY <1>1, <2>1, ToggledNodes
  <2>3. Len(Listing(fm_root')) \in Nat
    BY <2>2, Listed
  <2> QED
    BY <1>1, <2>3, ToggleKeepsPlace
<1>2. CASE UNCHANGED treeVars
  BY <1>2, ListingPaths DEF treeVars
<1> QED
  BY <1>1, <1>2 DEF Activate

LEMMA SelectionStep == TreeInv /\ SelectionInv /\ [Next]_vars => SelectionInv'
<1> SUFFICES ASSUME TreeInv, SelectionInv, [Next]_vars PROVE SelectionInv'
  OBVIOUS
<1> DEFINE L == Listing(fm_root)
<1>0. /\ L \in Seq(Path) /\ Len(L) \in Nat /\ Len(L) <= MAX_VISIBLE
      /\ \A i \in 1 .. Len(L) : L[i] \in Path
  BY ListingPaths
<1>1. CASE handle_input
  BY <1>1, SelectionKept DEF handle_input, treeVars
<1>2. CASE CollectRows
  <2>1. CASE UNCHANGED listVars /\ phase' = "bar"
    BY <1>2, <2>1, SelectionKept DEF CollectRows, treeVars
  <2>2. CASE /\ visible' = collect_visible_nodes /\ phase' = "keys"
             /\ selected' = IF Len(visible') = 0 THEN 0
                            ELSE IF selected >= Len(visible') THEN Len(visible') - 1
                            ELSE selected
             /\ UNCHANGED chosen
    <3>1. visible' = L /\ fm_root' = fm_root /\ chosen' = chosen
      BY <1>2, <2>2, RowsAreListing DEF CollectRows, treeVars
    <3>2. selected' \in Nat /\ (Len(L) = 0 \/ selected' < Len(L))
      BY <2>2, <3>1, <1>0 DEF SelectionInv
    <3>3. /\ chosen \in Path => selected' = selected
          /\ chosen = NULL \/ Len(L) = 0 => selected' = 0
      BY <2>2, <3>1, <1>0 DEF SelectionInv
    <3>4. L \in Seq(Path \cup {Freed})
      BY <1>0
    <3> HIDE DEF L
    <3>5. Listing(fm_root') = L
      BY <3>1 DEF L
    <3> QED
      BY <1>0, <3>1, <3>2, <3>3, <3>4, <3>5 DEF SelectionInv, L
  <2> QED
    BY <1>2, <2>1, <2>2 DEF CollectRows
<1>3. CASE PanelKeys
  <2>1. phase = "keys" /\ phase' = "load" /\ visible = L /\ selected \in Nat
    BY <1>3 DEF PanelKeys, SelectionInv
  <2>2. ASSUME NEW i \in 0 .. Len(L) - 1, MoveTo(i) PROVE SelectionInv'
    <3>1. i + 1 \in 1 .. Len(L) /\ i < Len(L)
      BY <1>0
    <3>2. selected' = i /\ chosen' = L[i + 1] /\ visible' = visible /\ fm_root' = fm_root
      BY <2>1, <2>2 DEF MoveTo, treeVars
    <3>3. chosen' \in Path /\ chosen' # NULL
      BY <1>0, <3>1, <3>2, ListingPaths, NullIsNoValue DEF Path
    <3> QED
      BY <1>0, <2>1, <3>1, <3>2, <3>3 DEF SelectionInv
  <2>3. CASE HasKeys /\ Activate(visible[selected + 1]) /\ UNCHANGED listVars
    <3>1. selected < Len(L)
      BY <2>1, <2>3 DEF HasKeys, SelectionInv
    <3>2. selected + 1 \in 1 .. Len(L)
      BY <1>0, <2>1, <3>1
    <3>3. /\ selected + 1 <= Len(Listing(fm_root')) /\ Len(Listing(fm_root')) \in Nat
          /\ Listing(fm_root')[selected + 1] = L[selected + 1]
      BY <2>1, <2>3, <3>2, ActivateKeepsRow
    <3>4. Len(L) # 0 /\ Len(Listing(fm_root')) # 0
      BY <1>0, <2>1, <3>1, <3>3
    <3> QED
      BY <2>1, <2>3, <3>1, <3>3, <3>4 DEF SelectionInv, listVars
  <2>4. CASE UNCHANGED <<fm_root, listVars>>
    BY <2>1, <2>4, SelectionKept
  <2>5. \/ selected < Len(L) - 1 /\ MoveTo(selected + 1)
        \/ selected > 0 /\ HasKeys /\ MoveTo(selected - 1)
        \/ HasKeys /\ Activate(visible[selected + 1]) /\ UNCHANGED listVars
        \/ UNCHANGED <<fm_root, listVars>>
    BY <1>3, <2>1 DEF PanelKeys, treeVars
  <2>6. HasKeys => selected < Len(L)
    BY <2>1 DEF HasKeys, SelectionInv
  <2>7. CASE selected < Len(L) - 1 /\ MoveTo(selected + 1)
    <3>1. selected + 1 \in 0 .. Len(L) - 1
      BY <1>0, <2>1, <2>7
    <3> QED
      BY <2>2, <2>7, <3>1
  <2>8. CASE selected > 0 /\ HasKeys /\ MoveTo(selected - 1)
    <3>1. selected - 1 \in 0 .. Len(L) - 1
      BY <1>0, <2>1, <2>6, <2>8
    <3> QED
      BY <2>2, <2>8, <3>1
  <2> QED
    BY <2>3, <2>4, <2>5, <2>7, <2>8
<1>4. CASE LoadRoot
  <2>1. phase' # "keys"
    BY <1>4 DEF LoadRoot
  <2>2. fm_root = NULL => selected = 0
    BY <1>4, EmptyListing DEF LoadRoot, SelectionInv
  <2>3. CASE UNCHANGED <<fm_root, listVars>>
    BY <1>4, <2>3, SelectionKept DEF LoadRoot
  <2>4. CASE ~UNCHANGED <<fm_root, listVars>>
    <3>1. /\ chosen' = NULL /\ (selected' = 0 \/ (fm_root = NULL /\ selected' = selected))
          /\ visible' = visible \/ visible' = Dangling
      BY <1>4, <2>4 DEF LoadRoot, MovedToFirstRow, treeVars
    <3>2. selected' = 0 /\ phase' \notin {"keys", "load"}
      BY <1>4, <2>2, <3>1 DEF LoadRoot
    <3> QED
      BY <3>1, <3>2, SelectionForgotten
  <2> QED
    BY <2>3, <2>4
<1>5. CASE ClickRow
  <2>1. phase' \notin {"keys", "load"}
    BY <1>5 DEF ClickRow
  <2>2. ASSUME NEW n, Select(n), chosen' = Chosen(n), Activate(n), UNCHANGED visible
        PROVE  SelectionInv'
    <3>1. selected' \in Nat
      BY <2>2 DEF Select, PositionOf, SelectionInv
    <3>2. CASE ~(n \in ToSet(visible) /\ visible = collect_visible_nodes)
      <4>1. chosen' = Unknown
        BY <2>2, <3>2 DEF Chosen
      <4> QED
        BY <2>1, <2>2, <3>1, <4>1, SelectionForgotten
    <3>3. CASE n \in ToSet(visible) /\ visible = collect_visible_nodes
      <4>1. visible = L /\ chosen' = n
        BY <2>2, <3>3, RowsAreListing DEF Chosen
      <4>2. PICK i \in PositionOf(n) : selected' = i - 1
        BY <2>2, <3>3 DEF Select
      <4>3. i \in 1 .. Len(L) /\ L[i] \in {n, Freed}
        BY <4>1, <4>2, <1>0 DEF PositionOf
      <4>4. L[i] = n /\ n \in Path
        BY <1>0, <4>3, NullIsNoValue
      <4>5. /\ i <= Len(Listing(fm_root')) /\ Len(Listing(fm_root')) \in Nat
            /\ Listing(fm_root')[i] = n
        BY <2>2, <4>3, <4>4, ActivateKeepsRow
      <4>6. selected' < Len(Listing(fm_root')) /\ selected' + 1 = i
        BY <1>0, <4>2, <4>3, <4>5
      <4> QED
        BY <2>1, <2>2, <3>1, <4>1, <4>4, <4>5, <4>6, NullIsNoValue DEF SelectionInv, Path
    <3> QED
      BY <3>2, <3>3
  <2>3. CASE UNCHANGED <<listVars, treeVars>>
    BY <2>1, <2>3, SelectionKept DEF treeVars
  <2> QED
    BY <1>5, <2>2, <2>3 DEF ClickRow
<1>6. CASE draw_all_top_bar
  BY <1>6, SelectionKept DEF draw_all_top_bar, treeVars
<1>7. CASE draw_gitpopup
  BY <1>7, SelectionKept DEF draw_gitpopup, treeVars
<1>8. CASE draw_prompt_ui
  <2>1. phase' \notin {"keys", "load"}
    BY <1>8 DEF draw_prompt_ui
  <2>2. file_manager_refresh \/ UNCHANGED <<treeVars, listVars>>
    BY <1>8 DEF draw_prompt_ui, FloatPrompt_execute, Nav_create_new_file, NoDirectory,
       Fs_create, Fs_create_fails, Nav_create_folder, Nav_save, Nav_open_file, SearchEntered
  <2>3. CASE file_manager_refresh
    BY <2>1, <2>3, SelectionForgotten DEF file_manager_refresh, SelectionInv
  <2>4. CASE UNCHANGED <<treeVars, listVars>>
    BY <2>1, <2>4, SelectionKept DEF treeVars
  <2> QED
    BY <2>2, <2>3, <2>4
<1>9. CASE OtherProgram
  BY <1>9, SelectionKept DEF OtherProgram, treeVars
<1>10. CASE UNCHANGED vars
  BY <1>10 DEF vars, treeVars, listVars, SelectionInv
<1> QED
  BY <1>1, <1>2, <1>3, <1>4, <1>5, <1>6, <1>7, <1>8, <1>9, <1>10 DEF Next

\* A key acts on the node the user moved or clicked to since the tree was loaded,
\* and on the first without one, in every tree and after any keys, clicks, refreshes
\* and changes of other programs.
THEOREM SelectionStaysChosen == Spec => []SelectionIsChosen
<1>1. TreeInv /\ SelectionInv => SelectionIsChosen
  <2> SUFFICES ASSUME TreeInv, SelectionInv, phase = "keys"
               PROVE  /\ ToSet(visible) \subseteq Nodes
                      /\ chosen = NULL => selected = 0
                      /\ chosen \in Path => /\ selected < Len(visible)
                                           /\ visible[selected + 1] = chosen
    BY DEF SelectionIsChosen
  <2>1. visible = Listing(fm_root)
    BY DEF SelectionInv
  <2>2. ToSet(visible) \subseteq Nodes
    BY <2>1, ListingPaths DEF ToSet
  <2> QED
    BY <2>1, <2>2 DEF SelectionInv
<1> QED
  BY <1>1, TreeInit, TreeStep, SelectionInit, SelectionStep, PTL DEF Spec

-----------------------------------------------------------------------------
(* The types. *)

\* The tree is the one of the root that was loaded; what is expanded is loaded.
LoadedInv ==
  /\ loaded_root \in {NULL, <<>>} \cup Path
  /\ fm_root # NULL => /\ fm_root.root = loaded_root
                       /\ fm_root.open \subseteq DOMAIN fm_root.kids

FlagInv ==
  /\ mode \in {"WRITE", "FILE_MANAGER", "POPUP"}
  /\ {cwd, show_fm, active_menu, lost} \subseteq BOOLEAN
  /\ show_git \in {"no", "opened", "shown"}
  /\ prompt \in {"none", "new", "folder", "save", "open", "search"}
  /\ phase \in {"input", "collect", "keys", "load", "click", "bar", "git", "prompt"}
  /\ key \in PanelKey /\ click \in Click

LEMMA LoadedInit == Init => LoadedInv /\ FlagInv
  BY DEF Init, LoadedInv, FlagInv, PanelKey, Click

\* What is expanded was loaded.
LEMMA ActivateLoaded ==
  ASSUME TreeInv, LoadedInv, fm_root # NULL, NEW n, Activate(n)
  PROVE  LoadedInv'
<1>1. fm_root \in Tree
  BY DEF TreeInv
<1>2. CASE UNCHANGED treeVars
  BY <1>2 DEF LoadedInv, treeVars, Path
<1>3. CASE n \in Dir /\ Toggle(n)
  <2> DEFINE kids == FileNode_load_children(fm_root.kids, n)
  <2>1. DOMAIN kids = DOMAIN fm_root.kids \cup {n}
    BY DEF FileNode_load_children
  <2>2. CASE n \in fm_root.open
    <3>1. fm_root' = [fm_root EXCEPT !.open = @ \ {n}]
      BY <1>3, <2>2 DEF Toggle
    <3> QED
      BY <1>1, <1>3, <3>1 DEF LoadedInv, Toggle, Tree, Path
  <2>3. CASE n \notin fm_root.open
    <3>1. fm_root' = [fm_root EXCEPT !.open = @ \cup {n}, !.kids = kids]
      BY <1>1, <1>3, <2>3 DEF Toggle, Tree
    <3> HIDE DEF kids
    <3> QED
      BY <1>1, <1>3, <2>1, <3>1 DEF LoadedInv, Toggle, Tree, Path
  <2> QED
    BY <2>2, <2>3
<1> QED
  BY <1>2, <1>3 DEF Activate

LEMMA LoadedStep == TreeInv /\ LoadedInv /\ [Next]_vars => LoadedInv'
<1> SUFFICES ASSUME TreeInv, LoadedInv, [Next]_vars PROVE LoadedInv'
  OBVIOUS
<1>1. CASE UNCHANGED treeVars
  BY <1>1 DEF LoadedInv, treeVars, Path
<1>2. CASE PanelKeys
  <2>1. CASE HasKeys /\ Activate(visible[selected + 1])
    <3>1. fm_root # NULL
      BY <1>2, <2>1 DEF PanelKeys, HasKeys, TreeInv
    <3> QED
      BY <2>1, <3>1, ActivateLoaded
  <2> QED
    BY <1>1, <1>2, <2>1 DEF PanelKeys, MoveTo
<1>3. CASE LoadRoot
  <2> DEFINE moved == path_root # NULL /\ loaded_root # path_root
             root == IF moved THEN path_root ELSE <<>>
  <2>1. root \in Path \cup {<<>>}
    BY DEF TreeInv
  <2>2. \/ UNCHANGED treeVars
        \/ fm_root' = FileNode_build(root) /\ loaded_root' = root
    BY <1>3 DEF LoadRoot
  <2> HIDE DEF root
  <2>3. CASE fm_root' = FileNode_build(root) /\ loaded_root' = root
    BY <2>1, <2>3 DEF LoadedInv, FileNode_build, Path
  <2> QED
    BY <1>1, <2>2, <2>3
<1>4. CASE ClickRow
  <2>1. ASSUME NEW r \in DOMAIN Rows, Activate(Rows[r]) PROVE LoadedInv'
    <3>1. fm_root # NULL
      BY NoTreeNoRows
    <3> QED
      BY <2>1, <3>1, ActivateLoaded
  <2> QED
    BY <1>1, <1>4, <2>1 DEF ClickRow
<1>5. CASE draw_prompt_ui
  <2>1. CASE file_manager_refresh
    BY <2>1 DEF file_manager_refresh, LoadedInv, Path
  <2> QED
    BY <1>1, <1>5, <2>1
    DEF draw_prompt_ui, FloatPrompt_execute, Nav_create_new_file, NoDirectory, Fs_create,
        Fs_create_fails, Nav_create_folder, Nav_save, Nav_open_file, SearchEntered
<1>6. ASSUME handle_input \/ CollectRows \/ draw_all_top_bar \/ draw_gitpopup
             \/ OtherProgram \/ UNCHANGED vars
      PROVE  UNCHANGED treeVars
  BY <1>6 DEF handle_input, CollectRows, draw_all_top_bar, draw_gitpopup, OtherProgram, vars
<1> QED
  BY <1>1, <1>2, <1>3, <1>4, <1>5, <1>6 DEF Next

LEMMA FlagStep == FlagInv /\ [Next]_vars => FlagInv'
<1> SUFFICES ASSUME FlagInv, [Next]_vars PROVE FlagInv'
  OBVIOUS
<1> USE DEF FlagInv
<1>1. CASE handle_input
  <2>1. PICK in \in Input :
          /\ key' = IF in.key \in PanelKey THEN in.key ELSE "none"
          /\ click' = in.click
          /\ IF ClickedMode(in.click) = "WRITE" THEN WriteKey(in.key)
             ELSE mode' = ClickedMode(in.click) /\ UNCHANGED <<show_fm, prompt, show_git>>
    BY <1>1 DEF handle_input
  <2>2. key' \in PanelKey /\ click' \in Click
    BY <2>1, InputsAreKeysAndClicks DEF PanelKey
  <2>3. /\ lost' \in BOOLEAN /\ active_menu' = active_menu /\ phase' = "collect"
        /\ cwd' = cwd
    BY <1>1 DEF handle_input, diskVars
  <2>4. ClickedMode(in.click) \in {"WRITE", "FILE_MANAGER", "POPUP"}
    BY DEF ClickedMode
  <2>5. /\ mode' \in {"WRITE", "FILE_MANAGER", "POPUP"} /\ show_fm' \in BOOLEAN
        /\ prompt' \in {"none", "new", "folder", "save", "open", "search"}
        /\ show_git' \in {"no", "opened", "shown"}
    BY <2>1, <2>4 DEF WriteKey, Nav_show_fm, prompt_ui_config, GitPopup_open
  <2> QED
    BY <2>2, <2>3, <2>5
<1>2. CASE CollectRows
  BY <1>2 DEF CollectRows, windowVars, diskVars
<1>3. CASE PanelKeys
  BY <1>3 DEF PanelKeys, MoveTo, Activate, windowVars, diskVars
<1>4. CASE LoadRoot
  BY <1>4 DEF LoadRoot, windowVars, diskVars
<1>5. CASE ClickRow
  BY <1>5 DEF ClickRow, Activate, windowVars, diskVars
<1>6. CASE draw_all_top_bar
  BY <1>6 DEF draw_all_top_bar, MenuItem, Nav_show_fm, prompt_ui_config,
     GitPopup_open, diskVars
<1>7. CASE draw_gitpopup
  BY <1>7 DEF draw_gitpopup, GitPopup_close, diskVars
<1>8. CASE draw_prompt_ui
  BY <1>8 DEF draw_prompt_ui, FloatPrompt_execute, Nav_create_new_file, NoDirectory,
     Nav_create_folder, Nav_save, Nav_open_file, SearchEntered, PanelKey, Click
<1>9. CASE OtherProgram
  BY <1>9 DEF OtherProgram, windowVars
<1>10. CASE UNCHANGED vars
  BY <1>10 DEF vars, windowVars, diskVars
<1> QED
  BY <1>1, <1>2, <1>3, <1>4, <1>5, <1>6, <1>7, <1>8, <1>9, <1>10 DEF Next

\* Every variable keeps to its values; the tree is the one of the loaded root.
THEOREM TypeCorrect == Spec => []TypeOK
<1>1. TreeInv /\ LoadedInv /\ FlagInv /\ SelectionInv => TypeOK
  BY DEF TreeInv, LoadedInv, FlagInv, SelectionInv, TypeOK
<1> QED
  BY <1>1, TreeInit, TreeStep, LoadedInit, LoadedStep, FlagStep, SelectionInit,
     SelectionStep, PTL DEF Spec
=============================================================================
