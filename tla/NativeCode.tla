----------------------------- MODULE NativeCode -----------------------------
(***************************************************************************)
(* The core words as the processors see them.  Native words are the bytes  *)
(* that the assembler lays for the CODE words of arch/z80/blk.fs (in the   *)
(* image of the Dan SBC), arch/8086/blk.fs (the PC/AT) and cvm/cvm.fs, at  *)
(* the addresses of those images.  Words in Forth are compiled here, each  *)
(* in a slot of its own: threads do not depend on where they are.          *)
(*                                                                         *)
(* On the Z80, PS is SP with its top cell in BC, RS is IX, IP is DE and A  *)
(* is IY; on the 8086, PS is SP with its top cell in BX, RS is BP and IP   *)
(* is DX; the CVM keeps both stacks in memory.                             *)
(***************************************************************************)
EXTENDS CoreForth, FiniteSets

At(a, code) == [at |-> a, code |-> code]

-----------------------------------------------------------------------------
(* Z80.                                                                    *)

(* The inner interpreter, behind the restarts 10, 28, 30 and 38.           *)
Z80Next ==
    "xt" :> At(\h10, <<\hDD, \h23, \hDD, \h23, \hDD, \h73, \h00, \hDD, \h72, \h01,
         \hE1, \h5E, \h23, \h56, \h23, \hEB, \hE9>>)
 @@ "cell" :> At(\h28, <<\hE1, \hC5, \h44, \h4D, \h18, \h4A>>)
 @@ "val" :> At(\h30, <<\h3A, \hEC, \hBE, \hB7, \h28, \h3D, \h18, \h47>>)
 @@ "int" :> At(\h38, <<\hC3, \h80, \h1A>>)
 @@ "read" :> At(\h73, <<\hE1, \hC5, \h4E, \h23, \h46>>)
 @@ "next" :> At(\h78, <<\hEB, \h5E, \h23, \h56, \h23, \hEB, \hE9>>)
 @@ "write" :> At(\h7F, <<\hAF, \h32, \hEC, \hBE, \hE1, \h71, \h23, \h70, \hC1,
         \h18, \hEE>>)
 @@ "does" :> At(\h8A, <<\hE1, \hC5, \h44, \h4D, \h03, \h03, \h7E, \h23, \h66, \h6F,
         \hE9>>)

Z80Exit ==
    "EXIT" :> At(\h9C, <<\hDD, \h6E, \h00, \hDD, \h66, \h01, \hDD, \h2B, \hDD, \h2B,
         \hC3, \h79, \h00>>)
 @@ "BYE" :> At(\hCA, <<\h76>>)

Z80Ports ==
    "PC@" :> At(\h123, <<\hED, \h48, \h06, \h00, \hC3, \h78, \h00>>)
 @@ "[]=" :> At(\h130, <<\hC5, \hD9, \hC1, \hD1, \hE1, \h1A, \h13, \hED, \hA1, \h28,
         \h07, \hD9, \h01, \h00, \h00, \hC3, \h78, \h00, \hEA, \h35, \h01, \hD9,
         \h01, \h01, \h00, \hC3, \h78, \h00>>)
 @@ "[C]?" :> At(\h153, <<\h78, \hB1, \h20, \h06, \h0B, \hE1, \hE1, \hC3, \h78,
         \h00, \hC5, \hD9, \hC1, \hE1, \hD1, \h7B, \h54, \h5D, \hED, \hB1, \h20,
         \h06, \hB7, \hED, \h52, \h2B, \h18, \h03, \h21, \hFF, \hFF, \hE5, \hD9,
         \hC1, \hC3, \h78, \h00>>)

Z80Products ==
    "*" :> At(\h18A, <<\hE1, \hD5, \hEB, \h21, \h00, \h00, \h3E, \h10, \h29, \hCB,
         \h13, \hCB, \h12, \h30, \h01, \h09, \h3D, \h20, \hF5, \h44, \h4D, \hD1,
         \hC3, \h78, \h00>>)
 @@ "/MOD" :> At(\h1AA, <<\h60, \h69, \hC1, \hD5, \hEB, \h78, \h06, \h10, \h21,
         \h00, \h00, \h37, \hCB, \h11, \h17, \hED, \h6A, \hED, \h52, \h30, \h02,
         \h19, \h0D, \h10, \hF2, \hD1, \hE5, \h47, \hC3, \h78, \h00>>)

Z80Find ==
    "FIND" :> At(\h1D0, <<\hE1, \h09, \h22, \hDC, \hBE, \h2A, \hD6, \hBE, \h2B,
         \h7E, \hE6, \h7F, \hB9, \h20, \h16, \hE5, \hD5, \hC5, \hED, \h5B, \hDC,
         \hBE, \h2B, \h2B, \h2B, \h1B, \h1A, \hED, \hA9, \h20, \h03, \hEA, \hE9,
         \h01, \hC1, \hD1, \hE1, \h20, \h08, \h23, \hE5, \h01, \h01, \h00, \hC3,
         \h78, \h00, \h2B, \h7E, \h2B, \h6E, \h67, \hB5, \h20, \h06, \h01, \h00,
         \h00, \hC3, \h78, \h00, \h18, \hC9>>)

Z80Flow ==
    "(b)" :> At(\h215, <<\hC5, \h1A, \h4F, \h06, \h00, \h13, \hC3, \h78, \h00>>)
 @@ "(n)" :> At(\h224, <<\hC5, \hEB, \h4E, \h23, \h46, \h23, \hEB, \hC3, \h78,
         \h00>>)
 @@ "(br)" :> At(\h235, <<\h1A, \h6F, \h87, \h9F, \h67, \h19, \hEB, \hC3, \h78,
         \h00>>)
 @@ "(?br)" :> At(\h247, <<\h78, \hB1, \hC1, \h28, \hE9, \h13, \hC3, \h78, \h00>>)
 @@ "(next)" :> At(\h259, <<\hDD, \h35, \h00, \h28, \h0C, \h3E, \hFF, \hDD, \hBE,
         \h00, \h20, \h03, \hDD, \h35, \h01, \h18, \hCB, \hAF, \hDD, \hBE, \h01,
         \h20, \hC5, \hDD, \h2B, \hDD, \h2B, \h13, \hC3, \h78, \h00>>)

Z80Memory ==
    ">R" :> At(\h27D, <<\hDD, \h23, \hDD, \h23, \hDD, \h71, \h00, \hDD, \h70, \h01,
         \hC1, \hC3, \h78, \h00>>)
 @@ "R@" :> At(\h290, <<\hC5, \hDD, \h4E, \h00, \hDD, \h46, \h01, \hC3, \h78, \h00>>)
 @@ "R~" :> At(\h29F, <<\hDD, \h2B, \hDD, \h2B, \hC3, \h78, \h00>>)
 @@ "R>" :> At(\h2AB, <<\hC5, \hDD, \h4E, \h00, \hDD, \h46, \h01, \hDD, \h2B, \hDD,
         \h2B, \hC3, \h78, \h00>>)
 @@ "C@" :> At(\h2BE, <<\h0A, \h4F, \h06, \h00, \hC3, \h78, \h00>>)
 @@ "@" :> At(\h2C9, <<\h60, \h69, \h4E, \h23, \h46, \hC3, \h78, \h00>>)
 @@ "C!" :> At(\h2D6, <<\h60, \h69, \hC1, \h71, \hC1, \hC3, \h78, \h00>>)
 @@ "!" :> At(\h2E2, <<\h60, \h69, \hC1, \h71, \h23, \h70, \hC1, \hC3, \h78, \h00>>)
 @@ "1+" :> At(\h2F1, <<\h03, \hC3, \h78, \h00>>)
 @@ "1-" :> At(\h2FA, <<\h0B, \hC3, \h78, \h00>>)
 @@ "+" :> At(\h302, <<\hE1, \h09, \h44, \h4D, \hC3, \h78, \h00>>)
 @@ "-" :> At(\h30D, <<\hE1, \hB7, \hED, \h42, \h44, \h4D, \hC3, \h78, \h00>>)

Z80Logic ==
    "AND" :> At(\h31C, <<\hE1, \h79, \hA5, \h4F, \h78, \hA4, \h47, \hC3, \h78,
         \h00>>)
 @@ "OR" :> At(\h32B, <<\hE1, \h79, \hB5, \h4F, \h78, \hB4, \h47, \hC3, \h78, \h00>>)
 @@ "XOR" :> At(\h33B, <<\hE1, \h79, \hAD, \h4F, \h78, \hAC, \h47, \hC3, \h78,
         \h00>>)
 @@ "NOT" :> At(\h34B, <<\h78, \hB1, \h01, \h00, \h00, \h20, \h01, \h0C, \hC3, \h78,
         \h00>>)
 @@ ">>" :> At(\h35B, <<\hCB, \h38, \hCB, \h19, \hC3, \h78, \h00>>)
 @@ "<<" :> At(\h367, <<\hCB, \h21, \hCB, \h10, \hC3, \h78, \h00>>)
 @@ ">>8" :> At(\h374, <<\h48, \h06, \h00, \hC3, \h78, \h00>>)
 @@ "<<8" :> At(\h380, <<\h41, \h0E, \h00, \hC3, \h78, \h00>>)

Z80Stack ==
    "ROT" :> At(\h38C, <<\hE1, \hE3, \hC5, \h44, \h4D, \hC3, \h78, \h00>>)
 @@ "ROT>" :> At(\h39B, <<\h60, \h69, \hC1, \hE3, \hE5, \hC3, \h78, \h00>>)
 @@ "DUP" :> At(\h3A9, <<\hC5, \hC3, \h78, \h00>>)
 @@ "?DUP" :> At(\h3B4, <<\h78, \hB1, \h20, \hF1, \hC3, \h78, \h00>>)
 @@ "DROP" :> At(\h3C2, <<\hC1, \hC3, \h78, \h00>>)
 @@ "SWAP" :> At(\h3CD, <<\hE1, \hC5, \h44, \h4D, \hC3, \h78, \h00>>)
 @@ "OVER" :> At(\h3DB, <<\hE1, \hE5, \hC5, \h44, \h4D, \hC3, \h78, \h00>>)
 @@ "EXECUTE" :> At(\h3ED, <<\h60, \h69, \hC1, \hE9>>)

Z80Speedups ==
    "TUCK" :> At(\h433, <<\hE1, \hC5, \hE5, \hC3, \h78, \h00>>)
 @@ "NIP" :> At(\h43F, <<\hE1, \hC3, \h78, \h00>>)
 @@ "+!" :> At(\h448, <<\h60, \h69, \h4E, \h23, \h46, \h2B, \hE3, \h09, \h44, \h4D,
         \hE1, \h71, \h23, \h70, \hC1, \hC3, \h78, \h00>>)
 @@ "A>" :> At(\h45F, <<\hC5, \hFD, \hE5, \hC1, \hC3, \h78, \h00>>)
 @@ ">A" :> At(\h46B, <<\hC5, \hFD, \hE1, \hC1, \hC3, \h78, \h00>>)
 @@ "A>R" :> At(\h478, <<\hFD, \hE5, \hE1, \hDD, \h23, \hDD, \h23, \hDD, \h75, \h00,
         \hDD, \h74, \h01, \hC3, \h78, \h00>>)
 @@ "R>A" :> At(\h48E, <<\hDD, \h6E, \h00, \hDD, \h66, \h01, \hDD, \h2B, \hDD, \h2B,
         \hE5, \hFD, \hE1, \hC3, \h78, \h00>>)
 @@ "A+" :> At(\h4A3, <<\hFD, \h23, \hC3, \h78, \h00>>)
 @@ "A-" :> At(\h4AD, <<\hFD, \h2B, \hC3, \h78, \h00>>)
 @@ "AC@" :> At(\h4B8, <<\hC5, \hFD, \h4E, \h00, \h06, \h00, \hC3, \h78, \h00>>)
 @@ "AC!" :> At(\h4C7, <<\hFD, \h71, \h00, \hC1, \hC3, \h78, \h00>>)

Z80More ==
    "MOVE" :> At(\h4D5, <<\hE1, \hEB, \hE3, \h78, \hB1, \h28, \h02, \hED, \hB0,
         \hD1, \hC1, \hC3, \h78, \h00>>)
 @@ "=" :> At(\h4E7, <<\hE1, \hB7, \hED, \h42, \h01, \h00, \h00, \h20, \h01, \h03,
         \hC3, \h78, \h00>>)
 @@ "<" :> At(\h4F8, <<\hE1, \hB7, \hED, \h42, \h01, \h00, \h00, \h30, \h01, \h03,
         \hC3, \h78, \h00>>)
 @@ "CRC16" :> At(\h50D, <<\hC5, \hD9, \hE1, \hD1, \h7D, \hAA, \h57, \h06, \h08,
         \hCB, \h23, \hCB, \h12, \h30, \h08, \h7A, \hEE, \h10, \h57, \h7B, \hEE,
         \h21, \h5F, \h10, \hF0, \hD5, \hD9, \hC1, \hC3, \h78, \h00>>)

(* What CONSTANT and *VALUE lay for 'HERE, HERE and CURRENT.               *)
Z80Vars ==
    "'HERE" :> At(\h555, <<\hC5, \h01, \hD8, \hBE, \hC3, \h78, \h00>>)
 @@ "HERE" :> At(\h5F9, <<\hC5, \hED, \h4B, \hD8, \hBE, \hC3, \h78, \h00>>)
 @@ "CURRENT" :> At(\h5EA, <<\hC5, \hED, \h4B, \hD6, \hBE, \hC3, \h78, \h00>>)

(* The interrupt handler of the PS/2 keyboard driver.                      *)
Z80Psk ==
    "PSK" :> At(\h1A80, <<\hF3, \hF5, \h3E, \h10, \hD3, \h02, \hDB, \h02, \hCB,
         \h67, \h20, \h04, \hF1, \hFB, \hED, \h4D, \h3A, \h56, \hBF, \hB7, \h20,
         \h0F, \hDB, \h1A, \hCB, \h7F, \h20, \h05, \h3E, \h01, \h32, \h56, \hBF,
         \hF1, \hFB, \hED, \h4D, \hFE, \h09, \h20, \h46, \hE5, \h2A, \h58, \hBF,
         \h26, \h08, \hAF, \hCB, \h0D, \hCE, \h00, \h25, \h20, \hF9, \h67, \hDB,
         \h1A, \h7C, \hCE, \h00, \hE6, \h01, \h28, \h00, \hAF, \h32, \h6E, \hBF,
         \h32, \h70, \hBF, \h3A, \h5A, \hBF, \h6F, \h3A, \h5C, \hBF, \h3C, \hE6,
         \h07, \hBD, \h28, \h11, \h32, \h5C, \hBF, \h6F, \h3E, \h5E, \h85, \h6F,
         \h3E, \hBF, \hCE, \h00, \h67, \h3A, \h58, \hBF, \h77, \hAF, \h32, \h56,
         \hBF, \hE1, \hF1, \hFB, \hED, \h4D, \hDB, \h1A, \h07, \h3A, \h58, \hBF,
         \h1F, \h32, \h58, \hBF, \h3A, \h56, \hBF, \h3C, \h32, \h56, \hBF, \hF1,
         \hFB, \hED, \h4D>>)

-----------------------------------------------------------------------------
(* 8086.                                                                   *)

I86Next ==
    "val" :> At(\h19, <<\h8A, \h06, \h98, \hFE, \h08, \hC0, \h75, \h06, \h5F, \h53,
         \h8B, \h1D, \hEB, \h0A, \h30, \hC0, \h88, \h06, \h98, \hFE, \h5F, \h89,
         \h1D, \h5B>>)
 @@ "next" :> At(\h31, <<\h89, \hD7, \h42, \h42, \h8B, \h3D, \hFF, \hE7>>)
 @@ "cell" :> At(\h39, <<\h58, \h53, \h89, \hC3, \hEB, \hF2>>)
 @@ "xt" :> At(\h3F, <<\h45, \h45, \h89, \h56, \h00, \h5A, \hEB, \hEA>>)
 @@ "does" :> At(\h47, <<\h5F, \h53, \h89, \hFB, \h43, \h43, \h8B, \h3D, \hFF,
         \hE7>>)

I86Compare ==
    "EXIT" :> At(\h58, <<\h8B, \h56, \h00, \h4D, \h4D, \hE9, \hD1, \hFF>>)
 @@ "[]=" :> At(\h66, <<\h89, \hD9, \h5E, \h5F, \hFC, \hF3, \hA6, \hBB, \h00, \h00,
         \h75, \h01, \h43, \hE9, \hBB, \hFF>>)
 @@ "[C]?" :> At(\h7D, <<\h89, \hD9, \h5F, \h58, \hFC, \hF2, \hAE, \h74, \h02, \h89,
         \hD9, \h29, \hCB, \h4B, \hE9, \hA3, \hFF>>)
 @@ "BYE" :> At(\hB1, <<\hF4, \hEB, \hFE>>)

I86Find ==
    "FIND" :> At(\hBB, <<\h89, \hD9, \h5E, \h8B, \h3E, \h82, \hFE, \h8A, \h45, \hFF,
         \h24, \h7F, \h38, \hC1, \h75, \h18, \h56, \h57, \h51, \h04, \h03, \h30,
         \hE4, \h29, \hC7, \hFC, \hF3, \hA6, \h59, \h5F, \h5E, \h75, \h07, \h57,
         \hBB, \h01, \h00, \hE9, \h4E, \hFF, \h83, \hEF, \h03, \h8B, \h3D, \h09,
         \hFF, \h75, \hD6, \h31, \hDB, \hE9, \h40, \hFF>>)

I86Products ==
    "*" :> At(\hF5, <<\h58, \h52, \hF7, \hE3, \h5A, \h89, \hC3, \hE9, \h32, \hFF>>)
 @@ "/MOD" :> At(\h106, <<\h58, \h52, \h31, \hD2, \hF7, \hF3, \h89, \hD3, \h5A,
         \h53, \h89, \hC3, \hE9, \h1C, \hFF>>)

I86Flow ==
    "(n)" :> At(\h15F, <<\h53, \h89, \hD7, \h8B, \h1D, \h42, \h42, \hE9, \hC8,
         \hFE>>)
 @@ "(b)" :> At(\h16F, <<\h53, \h89, \hD7, \h30, \hFF, \h8A, \h1D, \h42, \hE9, \hB7,
         \hFE>>)
 @@ "(br)" :> At(\h181, <<\h89, \hD7, \h8A, \h05, \h30, \hE4, \h98, \h01, \hC2,
         \hE9, \hA4, \hFE>>)
 @@ "(?br)" :> At(\h195, <<\h09, \hDB, \h5B, \h74, \hE7, \h42, \hE9, \h93, \hFE>>)
 @@ "(next)" :> At(\h1A7, <<\hFF, \h4E, \h00, \h75, \hD5, \h4D, \h4D, \h42, \hE9,
         \h7F, \hFE>>)

I86Logic ==
    "+" :> At(\h1B6, <<\h58, \h01, \hC3, \hE9, \h75, \hFE>>)
 @@ "-" :> At(\h1C0, <<\h58, \h29, \hD8, \h89, \hC3, \hE9, \h69, \hFE>>)
 @@ "<" :> At(\h1CC, <<\h58, \h31, \hC9, \h39, \hD8, \h73, \h01, \h41, \h89, \hCB,
         \hE9, \h58, \hFE>>)
 @@ "1+" :> At(\h1DE, <<\h43, \hE9, \h4F, \hFE>>)
 @@ "1-" :> At(\h1E7, <<\h4B, \hE9, \h46, \hFE>>)
 @@ "AND" :> At(\h1F1, <<\h58, \h21, \hC3, \hE9, \h3A, \hFE>>)
 @@ "OR" :> At(\h1FC, <<\h58, \h09, \hC3, \hE9, \h2F, \hFE>>)
 @@ "XOR" :> At(\h208, <<\h58, \h31, \hC3, \hE9, \h23, \hFE>>)
 @@ "NOT" :> At(\h214, <<\h09, \hDB, \hBB, \h00, \h00, \h75, \h01, \h43, \hE9, \h12,
         \hFE>>)
 @@ ">>" :> At(\h224, <<\hD1, \hEB, \hE9, \h08, \hFE>>)
 @@ "<<" :> At(\h22E, <<\hD1, \hE3, \hE9, \hFE, \hFD>>)
 @@ ">>8" :> At(\h239, <<\h88, \hFB, \h30, \hFF, \hE9, \hF1, \hFD>>)
 @@ "<<8" :> At(\h246, <<\h88, \hDF, \h30, \hDB, \hE9, \hE4, \hFD>>)

I86Stack ==
    "R@" :> At(\h252, <<\h53, \h8B, \h5E, \h00, \hE9, \hD8, \hFD>>)
 @@ "R~" :> At(\h25E, <<\h4D, \h4D, \hE9, \hCE, \hFD>>)
 @@ "R>" :> At(\h268, <<\h53, \h8B, \h5E, \h00, \h4D, \h4D, \hE9, \hC0, \hFD>>)
 @@ ">R" :> At(\h276, <<\h45, \h45, \h89, \h5E, \h00, \h5B, \hE9, \hB2, \hFD>>)
 @@ "ROT" :> At(\h285, <<\h59, \h58, \h51, \h53, \h89, \hC3, \hE9, \hA3, \hFD>>)
 @@ "ROT>" :> At(\h295, <<\h59, \h58, \h53, \h50, \h89, \hCB, \hE9, \h93, \hFD>>)
 @@ "DUP" :> At(\h2A4, <<\h53, \hE9, \h89, \hFD>>)
 @@ "?DUP" :> At(\h2AF, <<\h89, \hD8, \h09, \hC0, \h75, \hEF, \hE9, \h79, \hFD>>)
 @@ "OVER" :> At(\h2BF, <<\h58, \h50, \h53, \h89, \hC3, \hE9, \h6A, \hFD>>)
 @@ "SWAP" :> At(\h2CE, <<\h89, \hD8, \h5B, \h50, \hE9, \h5C, \hFD>>)
 @@ "DROP" :> At(\h2DC, <<\h5B, \hE9, \h51, \hFD>>)
 @@ "EXECUTE" :> At(\h2EA, <<\h89, \hD8, \h5B, \hFF, \hE0>>)

I86Memory ==
    "C@" :> At(\h2F4, <<\h89, \hDF, \h30, \hFF, \h8A, \h1D, \hE9, \h34, \hFD>>)
 @@ "@" :> At(\h301, <<\h89, \hDF, \h8B, \h1D, \hE9, \h29, \hFD>>)
 @@ "C!" :> At(\h30D, <<\h89, \hDF, \h59, \h88, \h0D, \h5B, \hE9, \h1B, \hFD>>)
 @@ "!" :> At(\h31A, <<\h89, \hDF, \h59, \h89, \h0D, \h5B, \hE9, \h0E, \hFD>>)

I86Vars ==
    "'HERE" :> At(\h37D, <<\h53, \hBB, \h84, \hFE, \hE9, \hAD, \hFC>>)
 @@ "HERE" :> At(\h421, <<\h53, \h8B, \h1E, \h84, \hFE, \hE9, \h08, \hFC>>)
 @@ "CURRENT" :> At(\h412, <<\h53, \h8B, \h1E, \h82, \hFE, \hE9, \h17, \hFC>>)

-----------------------------------------------------------------------------
(* CVM: every word is its opcode and a jump to next.                       *)

Opcode ==
    "PC!" :> 51 @@ "PC@" :> 52 @@ "*" :> 53 @@ "/MOD" :> 54 @@ "EXIT" :> 13 @@ "BYE" :> 59 @@ "(br)" :> 30
 @@ "(?br)" :> 8 @@ "(next)" :> 9 @@ "(b)" :> 15 @@ "(n)" :> 16 @@ "C@" :> 63 @@ "@" :> 64
 @@ "C!" :> 66 @@ "!" :> 65 @@ "NOT" :> 38 @@ "AND" :> 39 @@ "OR" :> 40 @@ "XOR" :> 41
 @@ "+" :> 28 @@ "-" :> 29 @@ "<" :> 33 @@ "R@" :> 60 @@ "R~" :> 26 @@ "R>" :> 61
 @@ ">R" :> 62 @@ "DUP" :> 0 @@ "DROP" :> 1 @@ "?DUP" :> 14 @@ "SWAP" :> 4 @@ "OVER" :> 5
 @@ "ROT" :> 6 @@ "EXECUTE" :> 21
CvmNext ==
    "next" :> At(3, <<7>>) @@ "cell" :> At(3, <<7>>) @@ "xt" :> At(4, <<12>>)
 @@ "does" :> At(5, <<18>>) @@ "val" :> At(6, <<19>>)
CvmWords == [w \in DOMAIN Opcode |-> At(4 * (Opcode[w] + 2), <<Opcode[w], 11, 3, 0>>)]
CvmVars ==
    "'HERE" :> At(\h180, <<2, 4, 254, 11, 3, 0>>) @@ "HERE" :> At(\h188, <<3, 4, 254, 11, 3, 0>>)
 @@ "CURRENT" :> At(\h190, <<3, 2, 254, 11, 3, 0>>)

-----------------------------------------------------------------------------
(* The images.  v is a VALUE and c a word of CREATE.                       *)

Cpus == {"z80", "i86", "cvm"}
SYSVARS == [z80 |-> 48852, i86 |-> 65152, cvm |-> 65024]

Native == [z80 |-> Z80Next @@ Z80Exit @@ Z80Ports @@ Z80Products @@ Z80Find @@ Z80Flow
                   @@ Z80Memory @@ Z80Logic @@ Z80Stack @@ Z80Speedups @@ Z80More @@ Z80Vars
                   @@ Z80Psk,
           i86 |-> I86Next @@ I86Compare @@ I86Find @@ I86Products @@ I86Flow @@ I86Logic
                   @@ I86Stack @@ I86Memory @@ I86Vars,
           cvm |-> CvmNext @@ CvmWords @@ CvmVars]

InSlots == DOMAIN Colons \cup DOMAIN CvmColons \cup DOMAIN Doers \cup {"v", "c"}
Slots ==
    LET first[i \in 0..Cardinality(InSlots)] ==
            IF i = 0 THEN <<>>
            ELSE LET before == first[i - 1]
                     w == CHOOSE w \in InSlots : w \notin DOMAIN before
                 IN  before @@ (w :> (6928 + (240 * i)))
    IN  first[Cardinality(InSlots)]
Digits == 3840      \* the address of L1

Where(cpu) ==
    [w \in DOMAIN Native[cpu] |-> Native[cpu][w].at] @@ Slots
    @@ "'A" :> (SYSVARS[cpu] + 6) @@ "TO?" :> (SYSVARS[cpu] + 24) @@ "L1" :> Digits
where == [cpu \in Cpus |-> Where(cpu)] @@ <<>>

(* CALLi!: a call, at a, of what a code field begins with.                 *)
Rst == "xt" :> 215 @@ "cell" :> 239 @@ "val" :> 247
Call(entry, cpu, w, a) ==
    LET to == entry[cpu][w]
    IN  CASE cpu = "z80" -> IF w \in DOMAIN Rst THEN <<Rst[w]>> ELSE <<205>> \o CellOf(to)
          [] cpu = "i86" -> <<232>> \o CellOf((to - a - 3) % 65536)
          [] cpu = "cvm" -> <<10>> \o CellOf(to)

Colon(entry, cpu, a, body) == Call(entry, cpu, "xt", a) \o compile(entry[cpu], body)
\* f @@ <<>> is f; TLC tabulates the first and recomputes the second.
ForthOf(cpu) ==
    LET colons == IF cpu = "cvm" THEN Colons @@ CvmColons ELSE Colons
    IN  [w \in (DOMAIN colons \cup DOMAIN Doers \cup {"v", "c"}) \ DOMAIN Native[cpu] |->
        LET a == where[cpu][w]
        IN  At(a, CASE w \in DOMAIN colons -> Colon(where, cpu, a, colons[w])
                    [] w \in DOMAIN Doers -> Call(where, cpu, "does", a)
                                            \o CellOf(where[cpu][Doers[w].does])
                                            \o <<Doers[w].data>>
                    [] w = "v" -> Call(where, cpu, "val", a) \o <<0, 0>>
                    [] w = "c" -> Call(where, cpu, "cell", a) \o <<0, 0>>)] @@ <<>>
Forth == [z80 |-> ForthOf("z80"), i86 |-> ForthOf("i86"), cvm |-> ForthOf("cvm")]

(* The words side by side, and 0 between them.                             *)
Place(c) == c.at .. (c.at + Len(c.code) - 1)
Placed(code) ==
    [a \in UNION {Place(code[w]) : w \in DOMAIN code} |->
        LET w == CHOOSE w \in DOMAIN code : a \in Place(code[w])
        IN  code[w].code[a - code[w].at + 1]]
Whole(cpu) == Placed(Native[cpu] @@ Forth[cpu] @@ "L1" :> At(Digits, HexDigits)) @@ <<>>

images == [cpu \in Cpus |-> Whole(cpu)] @@ <<>>
=============================================================================
