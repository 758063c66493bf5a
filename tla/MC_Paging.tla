----------------------------- MODULE MC_Paging ------------------------------
(***************************************************************************)
(* Instances of demand paging for TLC.  One or two global tables of 20     *)
(* entries stand for four of 1024, so virtual memory starts at page 20 or  *)
(* 40, and, as with 255 frames and the code's first virtual pages, the     *)
(* index free_frm computes is none of a page's table.  The stray word is   *)
(* 0; a word of -1 adds nothing, as the scan may also leave head at -1.    *)
(***************************************************************************)
EXTENDS PagingProps

RoomyCalls == {"vcreate", "kill", "xmmap", "get_bs", "release_bs", "touch"}
TightCalls == {"create", "kill", "xmmap", "xmunmap", "touch", "write"}

RoomyMaps == {<<2, 21, 0, 1>>, <<1, 21, 1, 1>>}
TightMaps == {<<1, 41, 1, 2>>, <<2, 40, 0, 2>>}
=============================================================================
