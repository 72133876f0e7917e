------------------------------ MODULE MCStartUp ------------------------------
(* Instances of StartUp small enough for TLC. *)
EXTENDS StartUp

Region(b, l, t) == [base |-> b, length |-> l, type |-> t]

\* With entries of one byte, a manager of one and two spare bytes, a region of
\* 39 bytes at 1 leads to 10 entries, blocks of 3 and the first block at 13
MCMaps ==
  { <<Region(0, 1, 2), Region(1, 39, 1), Region(40, 1, 2), Region(41, 3, 2)>> }

\* Maps the arithmetic of the layout is checked for
MCLayoutMaps ==
  {<<Region(b, l, t), Region(b + l, k, 2)>> :
     b \in 0..8, l \in 0..60, t \in 1..2, k \in {1, 7, 40}}
    \cup {<<Region(2, l, 1), Region(100, k, 1), Region(240, 16, 2)>> :
            l \in {20, 60, 90}, k \in {5, 20, 60, 90, 130}}

Fn(class, subclass, revision, header) ==
  [at \in ByteOffsets |->
     CASE at = BaseClassAt -> class [] at = SubClassAt -> subclass
       [] at = ProgIFAt -> 128 [] at = RevisionAt -> revision
       [] at = HeaderTypeAt -> header
       [] at = PrimaryBusAt -> 0 [] at = SecondaryBusAt -> 1]

HostBridge == Fn(6, 0, 2, 0)

\* An ISA bridge and an IDE controller in one device, as on a PIIX3
PIIX == <<0, 0, 0>> :> HostBridge @@ <<0, 1, 0>> :> Fn(6, 1, 0, 128)
          @@ <<0, 1, 1>> :> Fn(1, 1, 0, 0)

\* A bridge, whose header type is odd, to a bus with a controller
Bridged == <<0, 0, 0>> :> HostBridge @@ <<0, 2, 0>> :> Fn(6, 4, 0, 1)
             @@ <<0, 2, 1>> :> Fn(2, 0, 0, 0) @@ <<1, 0, 0>> :> Fn(1, 1, 0, 0)

TwoHosts == <<0, 0, 0>> :> Fn(6, 0, 2, 128) @@ <<0, 0, 1>> :> HostBridge
              @@ <<0, 1, 0>> :> Fn(1, 1, 0, 0)

\* Nothing at 0:0:0
NoHost == <<0, 0, 1>> :> HostBridge @@ <<0, 3, 0>> :> Fn(1, 1, 1, 0)

\* More devices than the list has room for
Crowded == [f \in {<<0, s, 0>> : s \in 0..3} |-> Fn(1, f[2], 0, 0)]

MCMachines == {PIIX, Bridged, TwoHosts, NoHost, << >>, Crowded}

Volume(sectors, perCluster, isFat) ==
  [fat |-> isFat, totalSectors |-> sectors, reserved |-> 1, numFats |-> 2,
   fatSize |-> 2, rootEntries |-> 3, perCluster |-> perCluster]

Fat12Volume == Volume(20, 1, TRUE)

\* A disk with too many clusters, and none; and one without a file system
MCComputers ==
  ({PIIX} \X {Fat12Volume, Volume(30, 1, TRUE), NoVolume})
    \cup {<<Crowded, Volume(30, 1, FALSE)>>}
    \cup ({Bridged, TwoHosts, NoHost, << >>} \X {Fat12Volume})
=============================================================================
