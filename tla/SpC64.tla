------------------------------- MODULE SpC64 --------------------------------
(*****************************************************************************)
(* The routines of sp_c64.c that are modelled at their real sizes, in the    *)
(* order of the file. Every definition stands for the routines of one        *)
(* stretch of the file, as the set of their records: the operation, its      *)
(* numbers of digits and bits, its offsets, limits and unrolled loops as the *)
(* text has them. It has the name of one of them, which most of the others   *)
(* serve. Builds that do the same share a record.                            *)
(*****************************************************************************)
EXTENDS SpDrivers, SpProducts, SpReduce

-----------------------------------------------------------------------------
(* Numbers of 2048 bits: 34 digits of 61 bits. *)

sp_2048_from_mp_34 == {FromBin(61, 34), FromMp(61, 34), ToBin(61, 34, 2048)}
sp_2048_mul_34 == {
  NormOf(61, 17, {Rounds(1, 16)}), NormOf(61, 34, {Rounds(1, 33)}), MulDown(61, 34, 128, 15),
  SqrDown(61, 34, 128, 14)}
sp_2048_mul_d_34 == {MulDOf(61, 34, {Chained(1, 34)}), SubOf(61, 17, {Rounds(1, 17)})}
sp_2048_mont_reduce_17 == {
  CmpOf(61, 17, {Rounds(1, 17)}), CondSubOf(61, 17, {Rounds(1, 17)}),
  MulAddOf(61, 17, {Chained(4, 16)}), MontShift(61, 17, 1024, 17, 127),
  MontReduceOf(MulAddOf(61, 17, {Chained(4, 16)}),
               MontShift(61, 17, 1024, 17, 127), 17, 16, 48, Above(16))}
sp_2048_mul_17 == {MulDown(61, 17, 128, 15)}
sp_2048_sqr_17 == {SqrDown(61, 17, 128, 14)}
sp_2048_mul_d_17 == {
  MulDOf(61, 17, {Chained(1, 17)}), CondAddOf(61, 17, {Rounds(1, 17)}),
  AddOf(61, 17, {Rounds(1, 17)}), RShift(61, 17)}
sp_2048_mod_exp_17_ladder == {Ladder(61, 17, 1024)}
sp_2048_mod_exp_17_window == {Windows(61, 17, 1024, 5), SubOf(61, 34, {Rounds(1, 34)})}
sp_2048_mont_reduce_34 == {
  CmpOf(61, 34, {Rounds(1, 34)}), CondSubOf(61, 34, {Rounds(1, 34)}),
  MulAddOf(61, 34, {Chained(4, 32)}), MontShift(61, 34, 2048, 34, 127),
  MontReduceOf(MulAddOf(61, 34, {Chained(4, 32)}),
               MontShift(61, 34, 2048, 34, 127), 34, 33, 35, Above(33))}
sp_2048_mul_d_68 == {
  MulDOf(61, 68, {Chained(1, 68)}), CondAddOf(61, 34, {Rounds(1, 34)}),
  AddOf(61, 34, {Rounds(1, 34)}), RShift(61, 34)}
sp_2048_mod_exp_34_ladder == {Ladder(61, 34, 2048)}
sp_2048_mod_exp_34_window == {Windows(61, 34, 2048, 4)}
sp_RsaPublic_2048_34_small == {RsaPublicSmall(2048, 34)}
sp_RsaPublic_2048_34 == {RsaPublic(2048, 34)}
sp_RsaPrivate_2048_34_d == {RsaPrivateD(2048, 34)}
sp_RsaPrivate_2048_34_crt_small == {RsaPrivateCrtSmall(2048, 17)}
sp_RsaPrivate_2048_34_crt == {RsaPrivateCrt(2048, 17), ToMp(61, 34, 2048)}
sp_ModExp_2048_34 == {ModExp(2048, 34), LShift(61, 34)}
sp_2048_mod_exp_2_34 == {Base2(61, 34, 2048, 5, 34, 35)}
sp_DhExp_2048_34 == {DhExp(2048, 34, 61, <<33, 0, 3, 32>>)}
sp_ModExp_1024_17 == {ModExpHalf(1024, 17)}

-----------------------------------------------------------------------------
(* Numbers of 2048 bits: 36 digits of 57 bits. *)

sp_2048_from_mp_36 == {FromBin(57, 36), FromMp(57, 36), ToBin(57, 36, 2048)}
sp_2048_mul_9 == {
  NormOf(57, 18, {Rounds(8, 16)}), NormOf(57, 36, {Rounds(8, 32)}), MulUp(57, 9, 128)}
sp_2048_mul_18 == {
  AddOf(57, 9, {Rounds(1, 0)}), AddOf(57, 18, {Rounds(8, 16)}), SubOf(57, 18, {Rounds(8, 16)}),
  MulTwo(MulUp(57, 9, 128), FALSE), AddOf(57, 36, {Rounds(8, 32)}), SubOf(57, 36, {Rounds(8, 32)})}
sp_2048_mul_36 == {
  MulTwo(MulTwo(MulUp(57, 9, 128), FALSE), FALSE), SqrUp(57, 9, 128),
  SqrTwo(SqrUp(57, 9, 128), FALSE), SqrTwo(SqrTwo(SqrUp(57, 9, 128), FALSE), FALSE)}
sp_2048_mul_d_36 == {MulDOf(57, 36, {Chained(4, 36)})}
sp_2048_mont_reduce_18 == {
  CmpOf(57, 18, {Rounds(8, 16)}), CondSubOf(57, 18, {Rounds(8, 16)}),
  MulAddOf(57, 18, {Apart(8, 16)}), MontShift(57, 18, 1024, 18, 64),
  MontReduceOf(MulAddOf(57, 18, {Apart(8, 16)}),
               MontShift(57, 18, 1024, 18, 64), 18, 17, 55, Above(17))}
sp_2048_mul_d_18 == {
  MulDOf(57, 18, {Chained(4, 16)}), CondAddOf(57, 18, {Rounds(8, 16)}), RShift(57, 18)}
sp_2048_mod_exp_18_ladder == {Ladder(57, 18, 1024)}
sp_2048_mod_exp_18_window == {Windows(57, 18, 1024, 5)}
sp_2048_mul_add_36 == {
  CmpOf(57, 36, {Rounds(8, 32)}), CondSubOf(57, 36, {Rounds(8, 32)}),
  MulAddOf(57, 36, {Apart(8, 32)}), MontShift(57, 36, 2048, 36, 63)}
sp_2048_mont_reduce_36 == {
  MontReduceOf(MulAddOf(57, 36, {Apart(8, 32)}),
               MontShift(57, 36, 2048, 36, 63), 36, 35, 53, Above(35))}
sp_2048_mul_d_72 == {
  MulDOf(57, 72, {Chained(4, 72)}), CondAddOf(57, 36, {Rounds(8, 32)}), RShift(57, 36)}
sp_2048_mod_exp_36_ladder == {Ladder(57, 36, 2048)}
sp_2048_mod_exp_36_window == {Windows(57, 36, 2048, 4)}
sp_RsaPublic_2048_36_small == {RsaPublicSmall(2048, 36)}
sp_RsaPublic_2048_36 == {RsaPublic(2048, 36)}
sp_RsaPrivate_2048_36_d == {RsaPrivateD(2048, 36)}
sp_RsaPrivate_2048_36_crt_small == {RsaPrivateCrtSmall(2048, 18)}
sp_RsaPrivate_2048_36_crt == {RsaPrivateCrt(2048, 18), ToMp(57, 36, 2048)}
sp_ModExp_2048_36 == {ModExp(2048, 36)}
sp_2048_lshift_36 == {LShift(57, 36)}
sp_2048_mod_exp_2_36 == {Base2(57, 36, 2048, 5, 36, 53)}
sp_DhExp_2048_36 == {DhExp(2048, 36, 57, <<35, 0, 21, 32>>)}
sp_ModExp_1024_18 == {ModExpHalf(1024, 18)}

-----------------------------------------------------------------------------
(* Numbers of 3072 bits: 52 digits of 60 bits. *)

sp_3072_from_mp_52 == {FromBin(60, 52), FromMp(60, 52), ToBin(60, 52, 3072)}
sp_3072_mul_52 == {
  NormOf(60, 26, {Rounds(1, 25)}), NormOf(60, 52, {Rounds(1, 51)}), MulDown(60, 52, 128, 0),
  SqrDown(60, 52, 128, 0)}
sp_3072_mul_d_52 == {MulDOf(60, 52, {Chained(1, 52)}), SubOf(60, 26, {Rounds(1, 26)})}
sp_3072_mont_reduce_26 == {
  CmpOf(60, 26, {Rounds(1, 26)}), CondSubOf(60, 26, {Rounds(1, 26)}),
  MulAddOf(60, 26, {Chained(4, 24)}), MontShift(60, 26, 1536, 26, 127),
  MontReduceOf(MulAddOf(60, 26, {Chained(4, 24)}),
               MontShift(60, 26, 1536, 26, 127), 26, 25, 36, Above(25)),
   MulDown(60, 26, 128, 0)}
sp_3072_sqr_26 == {SqrDown(60, 26, 128, 0)}
sp_3072_mul_d_26 == {
  MulDOf(60, 26, {Chained(1, 26)}), CondAddOf(60, 26, {Rounds(1, 26)}),
  AddOf(60, 26, {Rounds(1, 26)}), RShift(60, 26)}
sp_3072_mod_exp_26_ladder == {Ladder(60, 26, 1536)}
sp_3072_mod_exp_26_window == {Windows(60, 26, 1536, 5), SubOf(60, 52, {Rounds(1, 52)})}
sp_3072_mont_reduce_52 == {
  CmpOf(60, 52, {Rounds(1, 52)}), CondSubOf(60, 52, {Rounds(1, 52)}),
  MulAddOf(60, 52, {Chained(4, 48)}), MontShift(60, 52, 3072, 52, 127),
  MontReduceOf(MulAddOf(60, 52, {Chained(4, 48)}),
               MontShift(60, 52, 3072, 52, 127), 52, 51, 12, Above(51))}
sp_3072_mul_d_104 == {
  MulDOf(60, 104, {Chained(1, 104)}), CondAddOf(60, 52, {Rounds(1, 52)}),
  AddOf(60, 52, {Rounds(1, 52)}), RShift(60, 52)}
sp_3072_mod_exp_52_ladder == {Ladder(60, 52, 3072)}
sp_3072_mod_exp_52_window == {Windows(60, 52, 3072, 4)}
sp_RsaPublic_3072_52_small == {RsaPublicSmall(3072, 52)}
sp_RsaPublic_3072_52 == {RsaPublic(3072, 52)}
sp_RsaPrivate_3072_52_d == {RsaPrivateD(3072, 52)}
sp_RsaPrivate_3072_52_crt_small == {RsaPrivateCrtSmall(3072, 26)}
sp_RsaPrivate_3072_52_crt == {RsaPrivateCrt(3072, 26), ToMp(60, 52, 3072)}
sp_ModExp_3072_52 == {ModExp(3072, 52), LShift(60, 52)}
sp_3072_mod_exp_2_52 == {Base2(60, 52, 3072, 5, 52, 12)}
sp_DhExp_3072_52 == {DhExp(3072, 52, 60, <<51, 20, 40, 32>>)}
sp_ModExp_1536_26 == {ModExpHalf(1536, 26)}

-----------------------------------------------------------------------------
(* Numbers of 3072 bits: 54 digits of 57 bits. *)

sp_3072_from_mp_54 == {FromBin(57, 54), FromMp(57, 54), ToBin(57, 54, 3072)}
sp_3072_mul_9 == {
  NormOf(57, 27, {Rounds(8, 24)}), NormOf(57, 54, {Rounds(8, 48)}), MulUp(57, 9, 128)}
sp_3072_mul_27 == {
  AddOf(57, 9, {Rounds(1, 0)}), SubOf(57, 18, {Rounds(8, 16)}), AddOf(57, 18, {Rounds(8, 16)}),
  MulThree(MulUp(57, 9, 128), FALSE, FALSE), AddOf(57, 27, {Rounds(8, 24)})}
sp_3072_mul_54 == {
  AddOf(57, 54, {Rounds(8, 48)}), SubOf(57, 54, {Rounds(8, 48)}),
  MulTwo(MulThree(MulUp(57, 9, 128), FALSE, FALSE), FALSE), SqrUp(57, 9, 128)}
sp_3072_sqr_27 == {
  SqrThree(SqrUp(57, 9, 128), FALSE, FALSE),
  SqrTwo(SqrThree(SqrUp(57, 9, 128), FALSE, FALSE), FALSE)}
sp_3072_mul_d_54 == {MulDOf(57, 54, {Chained(4, 52)}), SubOf(57, 27, {Rounds(8, 24)})}
sp_3072_mont_reduce_27 == {
  CmpOf(57, 27, {Rounds(8, 24)}), CondSubOf(57, 27, {Rounds(8, 24)}),
  MulAddOf(57, 27, {Apart(8, 24)}), MontShift(57, 27, 1536, 27, 63),
  MontReduceOf(MulAddOf(57, 27, {Apart(8, 24)}),
               MontShift(57, 27, 1536, 27, 63), 27, 26, 54, Above(26))}
sp_3072_mul_d_27 == {
  MulDOf(57, 27, {Chained(4, 24)}), CondAddOf(57, 27, {Rounds(8, 24)}), RShift(57, 27)}
sp_3072_mod_exp_27_ladder == {Ladder(57, 27, 1536)}
sp_3072_mod_exp_27_window == {Windows(57, 27, 1536, 5)}
sp_3072_mul_add_54 == {
  CmpOf(57, 54, {Rounds(8, 48)}), CondSubOf(57, 54, {Rounds(8, 48)}),
  MulAddOf(57, 54, {Apart(8, 48)}), MontShift(57, 54, 3072, 54, 127)}
sp_3072_mont_reduce_54 == {
  MontReduceOf(MulAddOf(57, 54, {Apart(8, 48)}),
               MontShift(57, 54, 3072, 54, 127), 54, 53, 51, Above(53))}
sp_3072_mul_d_108 == {
  MulDOf(57, 108, {Chained(4, 108)}), CondAddOf(57, 54, {Rounds(8, 48)}), RShift(57, 54)}
sp_3072_mod_exp_54_ladder == {Ladder(57, 54, 3072)}
sp_3072_mod_exp_54_window == {Windows(57, 54, 3072, 4)}
sp_RsaPublic_3072_54_small == {RsaPublicSmall(3072, 54)}
sp_RsaPublic_3072_54 == {RsaPublic(3072, 54)}
sp_RsaPrivate_3072_54_d == {RsaPrivateD(3072, 54)}
sp_RsaPrivate_3072_54_crt_small == {RsaPrivateCrtSmall(3072, 27)}
sp_RsaPrivate_3072_54_crt == {RsaPrivateCrt(3072, 27), ToMp(57, 54, 3072)}
sp_ModExp_3072_54 == {ModExp(3072, 54)}
sp_3072_lshift_54 == {LShift(57, 54)}
sp_3072_mod_exp_2_54 == {Base2(57, 54, 3072, 5, 54, 51)}
sp_DhExp_3072_54 == {DhExp(3072, 54, 57, <<53, 0, 19, 32>>)}
sp_ModExp_1536_27 == {ModExpHalf(1536, 27)}

-----------------------------------------------------------------------------
(* Numbers of 4096 bits: 70 digits of 59 bits. *)

sp_4096_from_mp_70 == {FromBin(59, 70), FromMp(59, 70), ToBin(59, 70, 4096)}
sp_4096_mul_70 == {
  NormOf(59, 35, {Rounds(1, 34)}), NormOf(59, 70, {Rounds(1, 69)}), MulDown(59, 70, 128, 0),
  SqrDown(59, 70, 128, 0)}
sp_4096_mul_d_70 == {MulDOf(59, 70, {Chained(1, 70)}), SubOf(59, 35, {Rounds(1, 35)})}
sp_4096_mont_reduce_35 == {
  CmpOf(59, 35, {Rounds(1, 35)}), CondSubOf(59, 35, {Rounds(1, 35)}),
  MulAddOf(59, 35, {Chained(4, 32)}), MontShift(59, 35, 2048, 35, 127),
  MontReduceOf(MulAddOf(59, 35, {Chained(4, 32)}),
               MontShift(59, 35, 2048, 35, 127), 35, 34, 42, Above(34)),
   MulDown(59, 35, 128, 0)}
sp_4096_sqr_35 == {SqrDown(59, 35, 128, 0)}
sp_4096_mul_d_35 == {
  MulDOf(59, 35, {Chained(1, 35)}), CondAddOf(59, 35, {Rounds(1, 35)}),
  AddOf(59, 35, {Rounds(1, 35)}), RShift(59, 35)}
sp_4096_mod_exp_35_ladder == {Ladder(59, 35, 2048)}
sp_4096_mod_exp_35_window == {Windows(59, 35, 2048, 5), SubOf(59, 70, {Rounds(1, 70)})}
sp_4096_mont_reduce_70 == {
  CmpOf(59, 70, {Rounds(1, 70)}), CondSubOf(59, 70, {Rounds(1, 70)}),
  MulAddOf(59, 70, {Chained(4, 68)}), MontShift(59, 70, 4096, 70, 127),
  MontReduceOf(MulAddOf(59, 70, {Chained(4, 68)}),
               MontShift(59, 70, 4096, 70, 127), 70, 69, 25, Above(69))}
sp_4096_mul_d_140 == {
  MulDOf(59, 140, {Chained(1, 140)}), CondAddOf(59, 70, {Rounds(1, 70)}),
  AddOf(59, 70, {Rounds(1, 70)}), RShift(59, 70)}
sp_4096_mod_exp_70_ladder == {Ladder(59, 70, 4096)}
sp_4096_mod_exp_70_window == {Windows(59, 70, 4096, 4)}
sp_RsaPublic_4096_70_small == {RsaPublicSmall(4096, 70)}
sp_RsaPublic_4096_70 == {RsaPublic(4096, 70)}
sp_RsaPrivate_4096_70_d == {RsaPrivateD(4096, 70)}
sp_RsaPrivate_4096_70_crt_small == {RsaPrivateCrtSmall(4096, 35)}
sp_RsaPrivate_4096_70_crt == {RsaPrivateCrt(4096, 35), ToMp(59, 70, 4096)}
sp_ModExp_4096_70 == {ModExp(4096, 70), LShift(59, 70)}
sp_4096_mod_exp_2_70 == {Base2(59, 70, 4096, 5, 70, 25)}
sp_DhExp_4096_70 == {DhExp(4096, 70, 59, <<69, 7, 52, 32>>)}

-----------------------------------------------------------------------------
(* Numbers of 4096 bits: 78 digits of 53 bits. *)

sp_4096_from_mp_78 == {FromBin(53, 78), FromMp(53, 78), ToBin(53, 78, 4096)}
sp_4096_norm_39 == {NormOf(53, 39, {Rounds(8, 32)}), NormOf(53, 78, {Rounds(8, 72)})}
sp_4096_mul_13 == {MulUp(53, 13, 128)}
sp_4096_mul_39 == {
  AddOf(53, 13, {Rounds(1, 0)}), SubOf(53, 26, {Rounds(8, 24)}), AddOf(53, 26, {Rounds(8, 24)}),
  MulThree(MulUp(53, 13, 128), FALSE, FALSE), AddOf(53, 39, {Rounds(8, 32)})}
sp_4096_mul_78 == {
  AddOf(53, 78, {Rounds(8, 72)}), SubOf(53, 78, {Rounds(8, 72)}),
  MulTwo(MulThree(MulUp(53, 13, 128), FALSE, FALSE), FALSE)}
sp_4096_sqr_13 == {SqrUp(53, 13, 128)}
sp_4096_sqr_39 == {
  SqrThree(SqrUp(53, 13, 128), FALSE, FALSE),
  SqrTwo(SqrThree(SqrUp(53, 13, 128), FALSE, FALSE), FALSE)}
sp_4096_mul_d_78 == {MulDOf(53, 78, {Chained(4, 76)}), SubOf(53, 39, {Rounds(8, 32)})}
sp_4096_mul_add_39 == {
  CmpOf(53, 39, {Rounds(8, 32)}), CondSubOf(53, 39, {Rounds(8, 32)}),
  MulAddOf(53, 39, {Apart(8, 32)}), MontShift(53, 39, 2048, 39, 127)}
sp_4096_mont_reduce_39 == {
  MontReduceOf(MulAddOf(53, 39, {Apart(8, 32)}),
               MontShift(53, 39, 2048, 39, 127), 39, 38, 34, Above(38))}
sp_4096_mul_d_39 == {
  MulDOf(53, 39, {Chained(4, 36)}), CondAddOf(53, 39, {Rounds(8, 32)}), RShift(53, 39)}
sp_4096_mod_exp_39_ladder == {Ladder(53, 39, 2048)}
sp_4096_mod_exp_39_window == {Windows(53, 39, 2048, 5)}
sp_4096_mul_add_78 == {
  CmpOf(53, 78, {Rounds(8, 72)}), CondSubOf(53, 78, {Rounds(8, 72)}),
  MulAddOf(53, 78, {Apart(8, 72)}), MontShift(53, 78, 4096, 78, 127)}
sp_4096_mont_reduce_78 == {
  MontReduceOf(MulAddOf(53, 78, {Apart(8, 72)}),
               MontShift(53, 78, 4096, 78, 127), 78, 77, 15, Above(77))}
sp_4096_mul_d_156 == {
  MulDOf(53, 156, {Chained(4, 156)}), CondAddOf(53, 78, {Rounds(8, 72)}), RShift(53, 78)}
sp_4096_mod_exp_78_ladder == {Ladder(53, 78, 4096)}
sp_4096_mod_exp_78_window == {Windows(53, 78, 4096, 4)}
sp_RsaPublic_4096_78_small == {RsaPublicSmall(4096, 78)}
sp_RsaPublic_4096_78 == {RsaPublic(4096, 78)}
sp_RsaPrivate_4096_78_d == {RsaPrivateD(4096, 78)}
sp_RsaPrivate_4096_78_crt_small == {RsaPrivateCrtSmall(4096, 39)}
sp_RsaPrivate_4096_78_crt == {RsaPrivateCrt(4096, 39), ToMp(53, 78, 4096)}
sp_ModExp_4096_78 == {ModExp(4096, 78)}
sp_4096_lshift_78 == {LShift(53, 78)}
sp_4096_mod_exp_2_78 == {Base2(53, 78, 4096, 5, 78, 15)}
sp_DhExp_4096_78 == {DhExp(4096, 78, 53, <<77, 17, 36, 32>>)}

-----------------------------------------------------------------------------
(* Numbers of 256 bits: 5 digits of 52 bits. *)

sp_256_mul_5 == {
  MulDown(52, 5, 128, 0), MulWide(52, 5, 127), SqrDown(52, 5, 128, 0), SqrWide(52, 5, 127)}
sp_256_from_mp_5 == {
  AddOf(52, 5, {Rounds(1, 5)}), AddOf(52, 5, {Rounds(1, 0)}), SubOf(52, 5, {Rounds(1, 5)}),
  SubOf(52, 5, {Rounds(1, 0)}), FromMp(52, 5)}
sp_256_to_mp_5 == {ToMp(52, 5, 256)}
sp_256_mul_add_5 == {
  CmpOf(52, 5, {Rounds(1, 5), Rounds(1, 0)}), CondSubOf(52, 5, {Rounds(1, 5), Rounds(1, 0)}),
  MulAddOf(52, 5, {Chained(4, 4), Apart(1, 0)}), NormOf(52, 5, {Rounds(1, 4), Rounds(1, 0)}),
  MontShift(52, 5, 256, 5, 64)}
sp_256_mont_reduce_order_5 == {
  MontReduceOf(MulAddOf(52, 5, {Chained(4, 4), Apart(1, 0)}),
               MontShift(52, 5, 256, 5, 64), 5, 4, 48, Bit(4, 48))}
sp_256_cond_add_5 == {CondAddOf(52, 5, {Rounds(1, 5)}), CondAddOf(52, 5, {Rounds(1, 0)})}
sp_256_cond_copy_5 == {CondCopyOf(52, 5, {Rounds(1, 5), Rounds(1, 0)})}
sp_256_from_bin_5 == {FromBin(52, 5)}
sp_256_to_bin_5 == {ToBin(52, 5, 256)}
sp_256_lshift_10 == {RShift(52, 5), MulDOf(52, 5, {Chained(1, 5), Apart(1, 0)}), LShift(52, 10)}

-----------------------------------------------------------------------------
(* Numbers of 384 bits: 7 digits of 55 bits. *)

sp_384_mul_7 == {MulDown(55, 7, 128, 0), MulWide(55, 7, 127), SqrDown(55, 7, 128, 0)}
sp_384_sqr_7 == {
  SqrWide(55, 7, 127), AddOf(55, 7, {Rounds(1, 7)}), AddOf(55, 7, {Rounds(1, 0)}),
  SubOf(55, 7, {Rounds(1, 7)}), SubOf(55, 7, {Rounds(1, 0)})}
sp_384_from_mp_7 == {FromMp(55, 7)}
sp_384_to_mp_7 == {ToMp(55, 7, 384)}
sp_384_mul_add_7 == {
  CmpOf(55, 7, {Rounds(1, 7), Rounds(1, 0)}), CondSubOf(55, 7, {Rounds(1, 7), Rounds(1, 0)}),
  MulAddOf(55, 7, {Chained(4, 4), Apart(1, 0)}), NormOf(55, 7, {Rounds(1, 6), Rounds(1, 0)})}
sp_384_mont_reduce_order_7 == {
  MontShift(55, 7, 384, 7, 64),
  MontReduceOf(MulAddOf(55, 7, {Chained(4, 4), Apart(1, 0)}),
               MontShift(55, 7, 384, 7, 64), 7, 6, 54, Bit(6, 54))}
sp_384_cond_add_7 == {CondAddOf(55, 7, {Rounds(1, 7)}), CondAddOf(55, 7, {Rounds(1, 0)})}
sp_384_cond_copy_7 == {CondCopyOf(55, 7, {Rounds(1, 7), Rounds(1, 0)})}
sp_384_from_bin_7 == {FromBin(55, 7)}
sp_384_to_bin_7 == {ToBin(55, 7, 384)}
sp_384_lshift_14 == {RShift(55, 7), MulDOf(55, 7, {Chained(1, 7), Apart(1, 0)}), LShift(55, 14)}

-----------------------------------------------------------------------------
(* Numbers of 521 bits: 9 digits of 58 bits. *)

sp_521_mul_9 == {MulDown(58, 9, 128, 0), MulUp(58, 9, 127)}
sp_521_sqr_9 == {
  SqrDown(58, 9, 128, 0), SqrUp(58, 9, 127), AddOf(58, 9, {Rounds(1, 9)}),
  AddOf(58, 9, {Rounds(1, 0)})}
sp_521_from_mp_9 == {SubOf(58, 9, {Rounds(1, 9)}), SubOf(58, 9, {Rounds(1, 0)}), FromMp(58, 9)}
sp_521_to_mp_9 == {ToMp(58, 9, 521)}
sp_521_norm_9 == {NormOf(58, 9, {Rounds(1, 8), Rounds(1, 0)})}
sp_521_mul_add_9 == {
  CmpOf(58, 9, {Rounds(1, 9), Rounds(1, 0)}), CondSubOf(58, 9, {Rounds(1, 9), Rounds(1, 0)}),
  MulAddOf(58, 9, {Chained(4, 8), Apart(1, 0)}), MontShift(58, 9, 521, 9, 64)}
sp_521_mont_reduce_order_9 == {
  MontReduceOf(MulAddOf(58, 9, {Chained(4, 8), Apart(1, 0)}),
               MontShift(58, 9, 521, 9, 64), 9, 8, 57, Bit(8, 57))}
sp_521_cond_add_9 == {CondAddOf(58, 9, {Rounds(1, 9)}), CondAddOf(58, 9, {Rounds(1, 0)})}
sp_521_cond_copy_9 == {CondCopyOf(58, 9, {Rounds(1, 9), Rounds(1, 0)})}
sp_521_from_bin_9 == {FromBin(58, 9)}
sp_521_to_bin_9 == {ToBin(58, 9, 521)}
sp_521_lshift_18 == {RShift(58, 9), MulDOf(58, 9, {Chained(1, 9), Apart(1, 0)}), LShift(58, 18)}

-----------------------------------------------------------------------------
(* Numbers of 1024 bits: 18 digits of 57 bits. *)

sp_1024_mul_9 == {MulUp(57, 9, 127)}
sp_1024_sqr_9 == {
  SqrUp(57, 9, 127), AddOf(57, 9, {Rounds(1, 0)}), AddOf(57, 18, {Rounds(8, 16)}),
  SubOf(57, 18, {Rounds(8, 16)})}
sp_1024_mul_18 == {
  MulTwo(MulUp(57, 9, 127), FALSE), SqrTwo(SqrUp(57, 9, 127), FALSE), MulDown(57, 18, 128, 0),
  SqrDown(57, 18, 128, 0)}
sp_1024_mul_d_18 == {
  NormOf(57, 18, {Rounds(1, 17), Rounds(8, 16)}), MulDOf(57, 18, {Chained(1, 18), Chained(4, 16)}),
  MulDOf(57, 36, {Chained(1, 36), Chained(4, 36)}), CondAddOf(57, 18, {Rounds(1, 18)})}
sp_1024_rshift_18 == {
  CondAddOf(57, 18, {Rounds(8, 16)}), SubOf(57, 18, {Rounds(1, 18)}),
  AddOf(57, 18, {Rounds(1, 18)}), RShift(57, 18)}
sp_1024_from_mp_18 == {FromMp(57, 18)}
sp_1024_to_mp_18 == {ToMp(57, 18, 1024)}
sp_1024_mul_add_18 == {
  CmpOf(57, 18, {Rounds(1, 18), Rounds(8, 16)}), CondSubOf(57, 18, {Rounds(1, 18), Rounds(8, 16)}),
  MulAddOf(57, 18, {Chained(4, 16), Apart(8, 16)})}
sp_1024_mont_reduce_18 == {
  MontShift(57, 18, 1024, 18, 64),
  MontReduceOf(MulAddOf(57, 18, {Chained(4, 16), Apart(8, 16)}),
               MontShift(57, 18, 1024, 18, 64), 18, 17, 55, Above(17))}
sp_1024_cond_copy_18 == {CondCopyOf(57, 18, {Rounds(1, 18), Rounds(1, 0)})}
sp_1024_from_bin_18 == {FromBin(57, 18)}

-----------------------------------------------------------------------------
\* All of them.
C64Routines == UNION {
  sp_2048_from_mp_34, sp_2048_mul_34, sp_2048_mul_d_34, sp_2048_mont_reduce_17, sp_2048_mul_17,
  sp_2048_sqr_17, sp_2048_mul_d_17, sp_2048_mod_exp_17_ladder, sp_2048_mod_exp_17_window,
  sp_2048_mont_reduce_34, sp_2048_mul_d_68, sp_2048_mod_exp_34_ladder, sp_2048_mod_exp_34_window,
  sp_RsaPublic_2048_34_small, sp_RsaPublic_2048_34, sp_RsaPrivate_2048_34_d,
  sp_RsaPrivate_2048_34_crt_small, sp_RsaPrivate_2048_34_crt, sp_ModExp_2048_34,
  sp_2048_mod_exp_2_34, sp_DhExp_2048_34, sp_ModExp_1024_17, sp_2048_from_mp_36, sp_2048_mul_9,
  sp_2048_mul_18, sp_2048_mul_36, sp_2048_mul_d_36, sp_2048_mont_reduce_18, sp_2048_mul_d_18,
  sp_2048_mod_exp_18_ladder, sp_2048_mod_exp_18_window, sp_2048_mul_add_36,
  sp_2048_mont_reduce_36, sp_2048_mul_d_72, sp_2048_mod_exp_36_ladder, sp_2048_mod_exp_36_window,
  sp_RsaPublic_2048_36_small, sp_RsaPublic_2048_36, sp_RsaPrivate_2048_36_d,
  sp_RsaPrivate_2048_36_crt_small, sp_RsaPrivate_2048_36_crt, sp_ModExp_2048_36,
  sp_2048_lshift_36, sp_2048_mod_exp_2_36, sp_DhExp_2048_36, sp_ModExp_1024_18,
  sp_3072_from_mp_52, sp_3072_mul_52, sp_3072_mul_d_52, sp_3072_mont_reduce_26, sp_3072_sqr_26,
  sp_3072_mul_d_26, sp_3072_mod_exp_26_ladder, sp_3072_mod_exp_26_window, sp_3072_mont_reduce_52,
  sp_3072_mul_d_104, sp_3072_mod_exp_52_ladder, sp_3072_mod_exp_52_window,
  sp_RsaPublic_3072_52_small, sp_RsaPublic_3072_52, sp_RsaPrivate_3072_52_d,
  sp_RsaPrivate_3072_52_crt_small, sp_RsaPrivate_3072_52_crt, sp_ModExp_3072_52,
  sp_3072_mod_exp_2_52, sp_DhExp_3072_52, sp_ModExp_1536_26, sp_3072_from_mp_54, sp_3072_mul_9,
  sp_3072_mul_27, sp_3072_mul_54, sp_3072_sqr_27, sp_3072_mul_d_54, sp_3072_mont_reduce_27,
  sp_3072_mul_d_27, sp_3072_mod_exp_27_ladder, sp_3072_mod_exp_27_window, sp_3072_mul_add_54,
  sp_3072_mont_reduce_54, sp_3072_mul_d_108, sp_3072_mod_exp_54_ladder, sp_3072_mod_exp_54_window,
  sp_RsaPublic_3072_54_small, sp_RsaPublic_3072_54, sp_RsaPrivate_3072_54_d,
  sp_RsaPrivate_3072_54_crt_small, sp_RsaPrivate_3072_54_crt, sp_ModExp_3072_54,
  sp_3072_lshift_54, sp_3072_mod_exp_2_54, sp_DhExp_3072_54, sp_ModExp_1536_27,
  sp_4096_from_mp_70, sp_4096_mul_70, sp_4096_mul_d_70, sp_4096_mont_reduce_35, sp_4096_sqr_35,
  sp_4096_mul_d_35, sp_4096_mod_exp_35_ladder, sp_4096_mod_exp_35_window, sp_4096_mont_reduce_70,
  sp_4096_mul_d_140, sp_4096_mod_exp_70_ladder, sp_4096_mod_exp_70_window,
  sp_RsaPublic_4096_70_small, sp_RsaPublic_4096_70, sp_RsaPrivate_4096_70_d,
  sp_RsaPrivate_4096_70_crt_small, sp_RsaPrivate_4096_70_crt, sp_ModExp_4096_70,
  sp_4096_mod_exp_2_70, sp_DhExp_4096_70, sp_4096_from_mp_78, sp_4096_norm_39, sp_4096_mul_13,
  sp_4096_mul_39, sp_4096_mul_78, sp_4096_sqr_13, sp_4096_sqr_39, sp_4096_mul_d_78,
  sp_4096_mul_add_39, sp_4096_mont_reduce_39, sp_4096_mul_d_39, sp_4096_mod_exp_39_ladder,
  sp_4096_mod_exp_39_window, sp_4096_mul_add_78, sp_4096_mont_reduce_78, sp_4096_mul_d_156,
  sp_4096_mod_exp_78_ladder, sp_4096_mod_exp_78_window, sp_RsaPublic_4096_78_small,
  sp_RsaPublic_4096_78, sp_RsaPrivate_4096_78_d, sp_RsaPrivate_4096_78_crt_small,
  sp_RsaPrivate_4096_78_crt, sp_ModExp_4096_78, sp_4096_lshift_78, sp_4096_mod_exp_2_78,
  sp_DhExp_4096_78, sp_256_mul_5, sp_256_from_mp_5, sp_256_to_mp_5, sp_256_mul_add_5,
  sp_256_mont_reduce_order_5, sp_256_cond_add_5, sp_256_cond_copy_5, sp_256_from_bin_5,
  sp_256_to_bin_5, sp_256_lshift_10, sp_384_mul_7, sp_384_sqr_7, sp_384_from_mp_7, sp_384_to_mp_7,
  sp_384_mul_add_7, sp_384_mont_reduce_order_7, sp_384_cond_add_7, sp_384_cond_copy_7,
  sp_384_from_bin_7, sp_384_to_bin_7, sp_384_lshift_14, sp_521_mul_9, sp_521_sqr_9,
  sp_521_from_mp_9, sp_521_to_mp_9, sp_521_norm_9, sp_521_mul_add_9, sp_521_mont_reduce_order_9,
  sp_521_cond_add_9, sp_521_cond_copy_9, sp_521_from_bin_9, sp_521_to_bin_9, sp_521_lshift_18,
  sp_1024_mul_9, sp_1024_sqr_9, sp_1024_mul_18, sp_1024_mul_d_18, sp_1024_rshift_18,
  sp_1024_from_mp_18, sp_1024_to_mp_18, sp_1024_mul_add_18, sp_1024_mont_reduce_18,
  sp_1024_cond_copy_18, sp_1024_from_bin_18}
=============================================================================
