------------------------------ MODULE MCFat16 ------------------------------
(***************************************************************************)
(* Instances of Fat16 for TLC. A sector has 4 bytes: two entries of the    *)
(* table or two directory entries.                                         *)
(***************************************************************************)
EXTENDS Fat16

File(n, first, size) == [name |-> n, dir |-> FALSE, first |-> first, size |-> size]
Dir(n, first) == [name |-> n, dir |-> TRUE, first |-> first, size |-> 0]

GoodBoot ==
    [signature |-> TRUE, sectorSize |-> SectorSize, spc |-> 1, reserved |-> 1, fats |-> 1,
     fatSize |-> 3, rootEntries |-> 4, total |-> 9]
GoodFat == [k \in 2 .. 4 |-> IF k = 2 THEN 4 ELSE Eoc]

\* The file f, of three clusters; the directory d, which has g in cluster 4.
Volume(boot, fat, first, d) ==
    [boot |-> boot, fat |-> fat, root |-> <<Skip, File("f", first, 9), Dir("d", d), End>>,
     dir |-> [k \in 2 .. 4 |-> IF k = 4 THEN <<File("g", 2, 13), End>> ELSE <<Skip, Skip>>]]

\* Tables with chains of every shape, and with every kind of entry; every small boot sector; starts that are no
\* clusters. The second disk has a volume once, else it has none.
Tables == [2 .. 4 -> {2, 3, 4, 5, Eoc}] \cup [2 .. 4 -> {0, 3, 4, Bad, Eoc}]
Boots ==
    [signature : {TRUE}, sectorSize : {SectorSize, 2 * SectorSize}, spc : 0 .. 3, reserved : 0 .. 1,
     fats : 0 .. 3, fatSize : 0 .. 3, rootEntries : {0, 4}, total : {0, 5, 8, 9, 11, 15}]
Images ==
    {Volume(GoodBoot, fat, 2, 3) : fat \in Tables}
    \cup {Volume(b, GoodFat, 2, 3) : b \in Boots}
    \cup {Volume(GoodBoot, GoodFat, first, d) : first \in {0, 4, 5}, d \in {0, 2, 5}}
Good  == Volume(GoodBoot, GoodFat, 3, 2)
Blank == Volume([GoodBoot EXCEPT !.signature = FALSE], GoodFat, 3, 2)
Disks == {<<i, Blank>> : i \in Images} \cup {<<Good, Volume(GoodBoot, GoodFat, 2, 3)>>}
Reads == {<<3, 9>>, <<5, 13>>}
=============================================================================
