------------------------------- MODULE SpC32 --------------------------------
(*****************************************************************************)
(* The routines of sp_c32.c that are modelled at their real sizes, in the    *)
(* order of the file. Every definition stands for the routines of one        *)
(* stretch of the file, as the set of their records: the operation, its      *)
(* numbers of digits and bits, its offsets, limits and unrolled loops as the *)
(* text has them. It has the name of one of them, which most of the others   *)
(* serve. Builds that do the same share a record. The names end in _c32, for *)
(* many routines of sp_c64.c have the same.                                  *)
(*****************************************************************************)
EXTENDS SpDrivers, SpProducts, SpReduce

-----------------------------------------------------------------------------
(* Numbers of 2048 bits: 72 digits of 29 bits. *)

sp_2048_from_mp_72_c32 == {FromBin(29, 72), FromMp(29, 72), ToBin(29, 71, 2048)}
sp_2048_norm_36_c32 == {
  NormOf(29, 36, {Rounds(1, 35), Rounds(8, 32)}), NormOf(29, 72, {Rounds(1, 71), Rounds(8, 64)})}
sp_2048_mul_12_c32 == {MulUp(29, 12, 64)}
sp_2048_norm_12_c32 == {
  AddOf(29, 12, {Rounds(1, 0)}), SubOf(29, 24, {Rounds(8, 24)}), AddOf(29, 24, {Rounds(8, 24)}),
  NormOf(29, 12, {Rounds(1, 11), Rounds(1, 0)}), NormOf(29, 24, {Rounds(1, 23), Rounds(8, 16)})}
sp_2048_mul_36_c32 == {
  MulThree(MulUp(29, 12, 64), TRUE, TRUE), AddOf(29, 36, {Rounds(8, 32)}),
  AddOf(29, 72, {Rounds(8, 72)}), SubOf(29, 72, {Rounds(8, 72)})}
sp_2048_mul_72_c32 == {
  NormOf(29, 144, {Rounds(1, 143), Rounds(8, 136)}),
  MulTwo(MulThree(MulUp(29, 12, 64), TRUE, TRUE), TRUE)}
sp_2048_sqr_12_c32 == {SqrUp(29, 12, 64), SqrThree(SqrUp(29, 12, 64), TRUE, FALSE)}
sp_2048_mul_72_small_c32 == {
  SqrTwo(SqrThree(SqrUp(29, 12, 64), TRUE, FALSE), TRUE), AddOf(29, 72, {Rounds(1, 72)}),
  SubOf(29, 72, {Rounds(1, 72)}), MulDown(29, 72, 64, 15)}
sp_2048_sqr_72_small_c32 == {
  SqrDown(29, 72, 64, 14), AddOf(29, 36, {Rounds(1, 36)}), SubOf(29, 36, {Rounds(1, 36)}),
  SubOf(29, 36, {Rounds(8, 32)})}
sp_2048_mul_36_small_c32 == {MulDown(29, 36, 64, 15), SqrDown(29, 36, 64, 14)}
sp_2048_mul_d_72_c32 == {MulDOf(29, 72, {Chained(1, 72), Chained(4, 72)})}
sp_2048_cmp_36_c32 == {
  CmpOf(29, 36, {Rounds(1, 36), Rounds(8, 32)}), CondSubOf(29, 36, {Rounds(1, 36), Rounds(8, 32)})}
sp_2048_mul_add_36_c32 == {
  MulAddOf(29, 36, {Chained(4, 32), Chained(8, 32), Chained(1, 36)}),
  MontShift(29, 36, 1024, 36, 63)}
sp_2048_mont_reduce_36_c32 == {
  MontReduceOf(MulAddOf(29, 36, {Chained(4, 32), Chained(8, 32), Chained(1, 36)}),
               MontShift(29, 36, 1024, 36, 63), 36, 35, 9, Above(35))}
sp_2048_mul_d_36_c32 == {
  MulDOf(29, 36, {Chained(1, 36), Chained(4, 36)}), CondAddOf(29, 36, {Rounds(1, 36)}),
  CondAddOf(29, 36, {Rounds(8, 32)}), RShift(29, 36)}
sp_2048_mod_exp_36_ladder_c32 == {Ladder(29, 36, 1024)}
sp_2048_mod_exp_36_window_c32 == {Windows(29, 36, 1024, 5)}
sp_2048_cmp_72_c32 == {
  CmpOf(29, 72, {Rounds(1, 72), Rounds(8, 72)}), CondSubOf(29, 72, {Rounds(1, 72), Rounds(8, 72)})}
sp_2048_mul_add_72_c32 == {
  MulAddOf(29, 72, {Chained(4, 68), Chained(8, 64), Chained(1, 72)}),
  MontShift(29, 72, 2048, 71, 63)}
sp_2048_mont_reduce_72_c32 == {
  MontReduceOf(MulAddOf(29, 72, {Chained(4, 68), Chained(8, 64), Chained(1, 72)}),
               MontShift(29, 72, 2048, 71, 63), 71, 70, 18, Above(70))}
sp_2048_mul_d_144_c32 == {
  NormOf(29, 71, {Rounds(1, 70), Rounds(8, 64)}),
  MulDOf(29, 144, {Chained(1, 144), Chained(4, 144)}), CondAddOf(29, 72, {Rounds(1, 72)}),
  CondAddOf(29, 72, {Rounds(8, 72)}), RShift(29, 72)}
sp_2048_mod_exp_72_ladder_c32 == {Ladder(29, 72, 2048)}
sp_2048_mod_exp_72_window_c32 == {Windows(29, 72, 2048, 4)}
sp_RsaPublic_2048_72_small_c32 == {RsaPublicSmall(2048, 72)}
sp_RsaPublic_2048_72_c32 == {RsaPublic(2048, 72)}
sp_RsaPrivate_2048_72_d_c32 == {RsaPrivateD(2048, 72)}
sp_RsaPrivate_2048_72_crt_small_c32 == {RsaPrivateCrtSmall(2048, 36)}
sp_RsaPrivate_2048_72_crt_c32 == {RsaPrivateCrt(2048, 36), ToMp(29, 71, 2048)}
sp_ModExp_2048_72_c32 == {ModExp(2048, 72)}
sp_2048_lshift_72_c32 == {LShift(29, 72)}
sp_2048_mod_exp_2_72_c32 == {Base2(29, 72, 2048, 4, 71, 18)}
sp_DhExp_2048_72_c32 == {DhExp(2048, 72, 29, <<70, 0, 2, 16>>)}
sp_ModExp_1024_36_c32 == {ModExpHalf(1024, 36)}

-----------------------------------------------------------------------------
(* Numbers of 3072 bits: 106 digits of 29 bits. *)

sp_3072_from_mp_106_c32 == {FromBin(29, 106), FromMp(29, 106), ToBin(29, 106, 3072)}
sp_3072_mul_106_c32 == {
  NormOf(29, 53, {Rounds(1, 52)}), NormOf(29, 106, {Rounds(1, 105)}), MulDown(29, 106, 64, 15),
  SqrDown(29, 106, 64, 14)}
sp_3072_mul_d_106_c32 == {MulDOf(29, 106, {Chained(1, 106)}), SubOf(29, 53, {Rounds(1, 53)})}
sp_3072_mont_reduce_53_c32 == {
  CmpOf(29, 53, {Rounds(1, 53)}), CondSubOf(29, 53, {Rounds(1, 53)}),
  MulAddOf(29, 53, {Chained(4, 52), Chained(1, 53)}), MontShift(29, 53, 1536, 53, 63),
  MontReduceOf(MulAddOf(29, 53, {Chained(4, 52), Chained(1, 53)}),
               MontShift(29, 53, 1536, 53, 63), 53, 52, 28, Above(52))}
sp_3072_mul_53_c32 == {MulDown(29, 53, 64, 15)}
sp_3072_sqr_53_c32 == {SqrDown(29, 53, 64, 14)}
sp_3072_mul_d_53_c32 == {
  MulDOf(29, 53, {Chained(1, 53)}), CondAddOf(29, 53, {Rounds(1, 53)}),
  AddOf(29, 53, {Rounds(1, 53)}), RShift(29, 53)}
sp_3072_mod_exp_53_ladder_c32 == {Ladder(29, 53, 1536)}
sp_3072_mod_exp_53_window_c32 == {Windows(29, 53, 1536, 5), SubOf(29, 106, {Rounds(1, 106)})}
sp_3072_mont_reduce_106_c32 == {
  CmpOf(29, 106, {Rounds(1, 106)}), CondSubOf(29, 106, {Rounds(1, 106)}),
  MulAddOf(29, 106, {Chained(4, 104), Chained(1, 106)}), MontShift(29, 106, 3072, 106, 63),
  MontReduceOf(MulAddOf(29, 106, {Chained(4, 104), Chained(1, 106)}),
               MontShift(29, 106, 3072, 106, 63), 106, 105, 27, Above(105))}
sp_3072_mul_d_212_c32 == {
  MulDOf(29, 212, {Chained(1, 212)}), CondAddOf(29, 106, {Rounds(1, 106)}),
  AddOf(29, 106, {Rounds(1, 106)}), RShift(29, 106)}
sp_3072_mod_exp_106_ladder_c32 == {Ladder(29, 106, 3072)}
sp_3072_mod_exp_106_window_c32 == {Windows(29, 106, 3072, 4)}
sp_RsaPublic_3072_106_small_c32 == {RsaPublicSmall(3072, 106)}
sp_RsaPublic_3072_106_c32 == {RsaPublic(3072, 106)}
sp_RsaPrivate_3072_106_d_c32 == {RsaPrivateD(3072, 106)}
sp_RsaPrivate_3072_106_crt_small_c32 == {RsaPrivateCrtSmall(3072, 53)}
sp_RsaPrivate_3072_106_crt_c32 == {RsaPrivateCrt(3072, 53), ToMp(29, 106, 3072)}
sp_ModExp_3072_106_c32 == {ModExp(3072, 106), LShift(29, 106)}
sp_3072_mod_exp_2_106_c32 == {Base2(29, 106, 3072, 4, 106, 27)}
sp_DhExp_3072_106_c32 == {DhExp(3072, 106, 29, <<105, 0, 11, 16>>)}
sp_ModExp_1536_53_c32 == {ModExpHalf(1536, 53)}

-----------------------------------------------------------------------------
(* Numbers of 3072 bits: 112 digits of 28 bits. *)

sp_3072_from_mp_112_c32 == {FromBin(28, 112), FromMp(28, 112), ToBin(28, 110, 3072)}
sp_3072_norm_56_c32 == {
  NormOf(28, 56, {Rounds(8, 48)}), NormOf(28, 55, {Rounds(8, 48)}),
  NormOf(28, 112, {Rounds(8, 104)}), NormOf(28, 110, {Rounds(8, 104)})}
sp_3072_mul_14_c32 == {MulUp(28, 14, 64)}
sp_3072_mul_28_c32 == {
  AddOf(28, 14, {Rounds(1, 0)}), AddOf(28, 28, {Rounds(8, 24)}), SubOf(28, 28, {Rounds(8, 24)}),
  NormOf(28, 14, {Rounds(1, 0)}), MulTwo(MulUp(28, 14, 64), TRUE), AddOf(28, 56, {Rounds(8, 56)})}
sp_3072_mul_56_c32 == {
  SubOf(28, 56, {Rounds(8, 56)}), NormOf(28, 28, {Rounds(8, 24)}),
  MulTwo(MulTwo(MulUp(28, 14, 64), TRUE), TRUE), AddOf(28, 112, {Rounds(8, 112)}),
  SubOf(28, 112, {Rounds(8, 112)}), NormOf(28, 224, {Rounds(8, 216)})}
sp_3072_mul_112_c32 == {MulTwo(MulTwo(MulTwo(MulUp(28, 14, 64), TRUE), TRUE), TRUE)}
sp_3072_sqr_14_c32 == {SqrUp(28, 14, 64)}
sp_3072_sqr_28_c32 == {
  SqrTwo(SqrUp(28, 14, 64), TRUE), SqrTwo(SqrTwo(SqrUp(28, 14, 64), TRUE), TRUE),
  SqrTwo(SqrTwo(SqrTwo(SqrUp(28, 14, 64), TRUE), TRUE), TRUE)}
sp_3072_mul_d_112_c32 == {MulDOf(28, 112, {Chained(4, 112)})}
sp_3072_mul_add_56_c32 == {
  CmpOf(28, 56, {Rounds(8, 56)}), CondSubOf(28, 56, {Rounds(8, 56)}),
  MulAddOf(28, 56, {Chained(8, 48), Chained(1, 56)})}
sp_3072_mont_reduce_56_c32 == {
  MontShift(28, 56, 1536, 55, 63),
  MontReduceOf(MulAddOf(28, 56, {Chained(8, 48), Chained(1, 56)}),
               MontShift(28, 56, 1536, 55, 63), 55, 54, 24, Above(54))}
sp_3072_mul_d_56_c32 == {
  MulDOf(28, 56, {Chained(4, 56)}), CondAddOf(28, 56, {Rounds(8, 56)}), RShift(28, 56)}
sp_3072_mod_exp_56_ladder_c32 == {Ladder(28, 56, 1536)}
sp_3072_mod_exp_56_window_c32 == {Windows(28, 56, 1536, 5)}
sp_3072_mul_add_112_c32 == {
  CmpOf(28, 112, {Rounds(8, 112)}), CondSubOf(28, 112, {Rounds(8, 112)}),
  MulAddOf(28, 112, {Chained(8, 104), Chained(1, 112)}), MontShift(28, 112, 3072, 110, 63)}
sp_3072_mont_reduce_112_c32 == {
  MontReduceOf(MulAddOf(28, 112, {Chained(8, 104), Chained(1, 112)}),
               MontShift(28, 112, 3072, 110, 63), 110, 109, 20, Above(109))}
sp_3072_mul_d_224_c32 == {
  MulDOf(28, 224, {Chained(4, 224)}), CondAddOf(28, 112, {Rounds(8, 112)}), RShift(28, 112)}
sp_3072_mod_exp_112_ladder_c32 == {Ladder(28, 112, 3072)}
sp_3072_mod_exp_112_window_c32 == {Windows(28, 112, 3072, 4)}
sp_RsaPublic_3072_112_small_c32 == {RsaPublicSmall(3072, 112)}
sp_RsaPublic_3072_112_c32 == {RsaPublic(3072, 112)}
sp_RsaPrivate_3072_112_d_c32 == {RsaPrivateD(3072, 112)}
sp_RsaPrivate_3072_112_crt_small_c32 == {RsaPrivateCrtSmall(3072, 56)}
sp_RsaPrivate_3072_112_crt_c32 == {RsaPrivateCrt(3072, 56), ToMp(28, 110, 3072)}
sp_ModExp_3072_112_c32 == {ModExp(3072, 112)}
sp_3072_lshift_112_c32 == {LShift(28, 112)}
sp_3072_mod_exp_2_112_c32 == {Base2(28, 112, 3072, 4, 110, 20)}
sp_DhExp_3072_112_c32 == {DhExp(3072, 112, 28, <<109, 0, 4, 16>>)}
sp_ModExp_1536_56_c32 == {ModExpHalf(1536, 56)}

-----------------------------------------------------------------------------
(* Numbers of 4096 bits: 142 digits of 29 bits. *)

sp_4096_from_mp_142_c32 == {FromBin(29, 142), FromMp(29, 142), ToBin(29, 142, 4096)}
sp_4096_mul_142_c32 == {
  NormOf(29, 71, {Rounds(1, 70)}), NormOf(29, 142, {Rounds(1, 141)}), MulDown(29, 142, 64, 15),
  SqrDown(29, 142, 64, 14)}
sp_4096_mul_d_142_c32 == {MulDOf(29, 142, {Chained(1, 142)}), SubOf(29, 71, {Rounds(1, 71)})}
sp_4096_mont_reduce_71_c32 == {
  CmpOf(29, 71, {Rounds(1, 71)}), CondSubOf(29, 71, {Rounds(1, 71)}),
  MulAddOf(29, 71, {Chained(4, 68), Chained(1, 71)}), MontShift(29, 71, 2048, 71, 63),
  MontReduceOf(MulAddOf(29, 71, {Chained(4, 68), Chained(1, 71)}),
               MontShift(29, 71, 2048, 71, 63), 71, 70, 18, Above(70))}
sp_4096_mul_71_c32 == {MulDown(29, 71, 64, 15)}
sp_4096_sqr_71_c32 == {SqrDown(29, 71, 64, 14)}
sp_4096_mul_d_71_c32 == {
  MulDOf(29, 71, {Chained(1, 71)}), CondAddOf(29, 71, {Rounds(1, 71)}),
  AddOf(29, 71, {Rounds(1, 71)}), RShift(29, 71)}
sp_4096_mod_exp_71_ladder_c32 == {Ladder(29, 71, 2048)}
sp_4096_mod_exp_71_window_c32 == {Windows(29, 71, 2048, 5), SubOf(29, 142, {Rounds(1, 142)})}
sp_4096_mont_reduce_142_c32 == {
  CmpOf(29, 142, {Rounds(1, 142)}), CondSubOf(29, 142, {Rounds(1, 142)}),
  MulAddOf(29, 142, {Chained(4, 140), Chained(1, 142)}), MontShift(29, 142, 4096, 142, 63),
  MontReduceOf(MulAddOf(29, 142, {Chained(4, 140), Chained(1, 142)}),
               MontShift(29, 142, 4096, 142, 63), 142, 141, 7, Above(141))}
sp_4096_mul_d_284_c32 == {
  MulDOf(29, 284, {Chained(1, 284)}), CondAddOf(29, 142, {Rounds(1, 142)}),
  AddOf(29, 142, {Rounds(1, 142)}), RShift(29, 142)}
sp_4096_mod_exp_142_ladder_c32 == {Ladder(29, 142, 4096)}
sp_4096_mod_exp_142_window_c32 == {Windows(29, 142, 4096, 4)}
sp_RsaPublic_4096_142_small_c32 == {RsaPublicSmall(4096, 142)}
sp_RsaPublic_4096_142_c32 == {RsaPublic(4096, 142)}
sp_RsaPrivate_4096_142_d_c32 == {RsaPrivateD(4096, 142)}
sp_RsaPrivate_4096_142_crt_small_c32 == {RsaPrivateCrtSmall(4096, 71)}
sp_RsaPrivate_4096_142_crt_c32 == {RsaPrivateCrt(4096, 71), ToMp(29, 142, 4096)}
sp_ModExp_4096_142_c32 == {ModExp(4096, 142), LShift(29, 142)}
sp_4096_mod_exp_2_142_c32 == {Base2(29, 142, 4096, 4, 142, 7)}
sp_DhExp_4096_142_c32 == {DhExp(4096, 142, 29, <<141, 9, 20, 16>>)}

-----------------------------------------------------------------------------
(* Numbers of 4096 bits: 162 digits of 26 bits. *)

sp_4096_from_mp_162_c32 == {FromBin(26, 162), FromMp(26, 162), ToBin(26, 158, 4096)}
sp_4096_norm_81_c32 == {
  NormOf(26, 81, {Rounds(8, 80)}), NormOf(26, 79, {Rounds(8, 72)}),
  NormOf(26, 162, {Rounds(8, 160)}), NormOf(26, 158, {Rounds(8, 152)})}
sp_4096_mul_9_c32 == {
  MulUp(26, 9, 64), AddOf(26, 9, {Rounds(1, 0)}), SubOf(26, 18, {Rounds(8, 16)})}
sp_4096_mul_27_c32 == {
  AddOf(26, 18, {Rounds(8, 16)}), NormOf(26, 9, {Rounds(1, 0)}), NormOf(26, 18, {Rounds(8, 16)}),
  NormOf(26, 54, {Rounds(8, 48)}), MulThree(MulUp(26, 9, 64), TRUE, TRUE)}
sp_4096_norm_27_c32 == {
  AddOf(26, 27, {Rounds(8, 24)}), SubOf(26, 54, {Rounds(8, 48)}), AddOf(26, 54, {Rounds(8, 48)}),
  NormOf(26, 27, {Rounds(8, 24)})}
sp_4096_mul_81_c32 == {
  MulThree(MulThree(MulUp(26, 9, 64), TRUE, TRUE), TRUE, TRUE), AddOf(26, 81, {Rounds(8, 80)}),
  AddOf(26, 162, {Rounds(8, 160)}), SubOf(26, 162, {Rounds(8, 160)}),
  NormOf(26, 324, {Rounds(8, 320)})}
sp_4096_mul_162_c32 == {
  MulTwo(MulThree(MulThree(MulUp(26, 9, 64), TRUE, TRUE), TRUE, TRUE), TRUE), SqrUp(26, 9, 64),
  SqrThree(SqrUp(26, 9, 64), TRUE, FALSE)}
sp_4096_sqr_81_c32 == {
  SqrThree(SqrThree(SqrUp(26, 9, 64), TRUE, FALSE), TRUE, FALSE),
  SqrTwo(SqrThree(SqrThree(SqrUp(26, 9, 64), TRUE, FALSE), TRUE, FALSE), TRUE)}
sp_4096_mul_d_162_c32 == {MulDOf(26, 162, {Chained(4, 160)}), SubOf(26, 81, {Rounds(8, 80)})}
sp_4096_mul_add_81_c32 == {
  CmpOf(26, 81, {Rounds(8, 80)}), CondSubOf(26, 81, {Rounds(8, 80)}),
  MulAddOf(26, 81, {Chained(8, 80), Chained(1, 81)}), MontShift(26, 81, 2048, 79, 63)}
sp_4096_mont_reduce_81_c32 == {
  MontReduceOf(MulAddOf(26, 81, {Chained(8, 80), Chained(1, 81)}),
               MontShift(26, 81, 2048, 79, 63), 79, 78, 20, Above(78))}
sp_4096_mul_d_81_c32 == {
  MulDOf(26, 81, {Chained(4, 80)}), CondAddOf(26, 81, {Rounds(8, 80)}), RShift(26, 81)}
sp_4096_mod_exp_81_ladder_c32 == {Ladder(26, 81, 2048)}
sp_4096_mod_exp_81_window_c32 == {Windows(26, 81, 2048, 5)}
sp_4096_mul_add_162_c32 == {
  CmpOf(26, 162, {Rounds(8, 160)}), CondSubOf(26, 162, {Rounds(8, 160)}),
  MulAddOf(26, 162, {Chained(8, 160), Chained(1, 162)}), MontShift(26, 162, 4096, 158, 63)}
sp_4096_mont_reduce_162_c32 == {
  MontReduceOf(MulAddOf(26, 162, {Chained(8, 160), Chained(1, 162)}),
               MontShift(26, 162, 4096, 158, 63), 158, 157, 14, Above(157))}
sp_4096_mul_d_324_c32 == {
  MulDOf(26, 324, {Chained(4, 324)}), CondAddOf(26, 162, {Rounds(8, 160)}), RShift(26, 162)}
sp_4096_mod_exp_162_ladder_c32 == {Ladder(26, 162, 4096)}
sp_4096_mod_exp_162_window_c32 == {Windows(26, 162, 4096, 4)}
sp_RsaPublic_4096_162_small_c32 == {RsaPublicSmall(4096, 162)}
sp_RsaPublic_4096_162_c32 == {RsaPublic(4096, 162)}
sp_RsaPrivate_4096_162_d_c32 == {RsaPrivateD(4096, 162)}
sp_RsaPrivate_4096_162_crt_small_c32 == {RsaPrivateCrtSmall(4096, 81)}
sp_RsaPrivate_4096_162_crt_c32 == {RsaPrivateCrt(4096, 81), ToMp(26, 158, 4096)}
sp_ModExp_4096_162_c32 == {ModExp(4096, 162)}
sp_4096_lshift_162_c32 == {LShift(26, 162)}
sp_4096_mod_exp_2_162_c32 == {Base2(26, 162, 4096, 4, 158, 14)}
sp_DhExp_4096_162_c32 == {DhExp(4096, 162, 26, <<157, 2, 24, 16>>)}

-----------------------------------------------------------------------------
(* Numbers of 256 bits: 9 digits of 29 bits. *)

sp_256_mul_9_c32 == {MulDown(29, 9, 64, 0), MulUp(29, 9, 63)}
sp_256_sqr_9_c32 == {
  SqrDown(29, 9, 64, 0), SqrUp(29, 9, 63), AddOf(29, 9, {Rounds(1, 9)}),
  AddOf(29, 9, {Rounds(1, 0)})}
sp_256_from_mp_9_c32 == {SubOf(29, 9, {Rounds(1, 9)}), SubOf(29, 9, {Rounds(1, 0)}), FromMp(29, 9)}
sp_256_to_mp_9_c32 == {ToMp(29, 9, 256)}
sp_256_mul_add_9_c32 == {
  CmpOf(29, 9, {Rounds(1, 9), Rounds(1, 0)}), CondSubOf(29, 9, {Rounds(1, 9), Rounds(1, 0)}),
  MulAddOf(29, 9, {Chained(4, 8), Chained(8, 8), Chained(1, 9)})}
sp_256_mont_reduce_order_9_c32 == {
  NormOf(29, 9, {Rounds(1, 8), Rounds(1, 0)}), MontShift(29, 9, 256, 9, 63),
  MontReduceOf(MulAddOf(29, 9, {Chained(4, 8), Chained(8, 8), Chained(1, 9)}),
               MontShift(29, 9, 256, 9, 63), 9, 8, 24, Bit(8, 24))}
sp_256_cond_add_9_c32 == {CondAddOf(29, 9, {Rounds(1, 9)}), CondAddOf(29, 9, {Rounds(1, 0)})}
sp_256_cond_copy_9_c32 == {CondCopyOf(29, 9, {Rounds(1, 9), Rounds(1, 0)})}
sp_256_from_bin_9_c32 == {FromBin(29, 9)}
sp_256_to_bin_9_c32 == {ToBin(29, 9, 256)}
sp_256_lshift_18_c32 == {RShift(29, 9), MulDOf(29, 9, {Chained(1, 9), Apart(1, 0)}), LShift(29, 18)}

-----------------------------------------------------------------------------
(* Numbers of 384 bits: 15 digits of 26 bits. *)

sp_384_mul_15_small_c32 == {MulDown(26, 15, 64, 0)}
sp_384_mul_15_c32 == {MulUp(26, 15, 63)}
sp_384_sqr_15_small_c32 == {SqrDown(26, 15, 64, 0)}
sp_384_sqr_15_c32 == {SqrUp(26, 15, 63)}
sp_384_add_15_c32 == {
  AddOf(26, 15, {Rounds(1, 15)}), AddOf(26, 15, {Rounds(1, 0)}), SubOf(26, 15, {Rounds(1, 15)}),
  SubOf(26, 15, {Rounds(1, 0)})}
sp_384_from_mp_15_c32 == {FromMp(26, 15)}
sp_384_to_mp_15_c32 == {ToMp(26, 15, 384)}
sp_384_mul_add_15_c32 == {
  CmpOf(26, 15, {Rounds(1, 15), Rounds(1, 0)}), CondSubOf(26, 15, {Rounds(1, 15), Rounds(1, 0)}),
  MulAddOf(26, 15, {Chained(4, 12), Apart(1, 0)})}
sp_384_mont_reduce_order_15_c32 == {
  NormOf(26, 15, {Rounds(1, 14), Rounds(1, 0)}), MontShift(26, 15, 384, 15, 63),
  MontReduceOf(MulAddOf(26, 15, {Chained(4, 12), Apart(1, 0)}),
               MontShift(26, 15, 384, 15, 63), 15, 14, 20, Bit(14, 20))}
sp_384_cond_add_15_c32 == {CondAddOf(26, 15, {Rounds(1, 15)}), CondAddOf(26, 15, {Rounds(1, 0)})}
sp_384_cond_copy_15_c32 == {CondCopyOf(26, 15, {Rounds(1, 15), Rounds(1, 0)})}
sp_384_from_bin_15_c32 == {FromBin(26, 15)}
sp_384_to_bin_15_c32 == {ToBin(26, 15, 384)}
sp_384_mul_d_15_c32 == {RShift(26, 15), MulDOf(26, 15, {Chained(1, 15), Apart(1, 0)})}
sp_384_lshift_30_c32 == {LShift(26, 30)}

-----------------------------------------------------------------------------
(* Numbers of 521 bits: 21 digits of 25 bits. *)

sp_521_mul_21_c32 == {
  MulDown(25, 21, 64, 0), MulGrid(25, 21, 63), SqrDown(25, 21, 64, 0), SqrGrid(25, 21, 63),
  AddOf(25, 21, {Rounds(1, 21)})}
sp_521_add_21_c32 == {
  AddOf(25, 21, {Rounds(8, 16)}), SubOf(25, 21, {Rounds(1, 21)}), SubOf(25, 21, {Rounds(8, 16)})}
sp_521_from_mp_21_c32 == {FromMp(25, 21)}
sp_521_to_mp_21_c32 == {ToMp(25, 21, 521)}
sp_521_norm_21_c32 == {NormOf(25, 21, {Rounds(1, 20), Rounds(8, 16)})}
sp_521_mul_add_21_c32 == {
  CmpOf(25, 21, {Rounds(1, 21), Rounds(8, 16)}), CondSubOf(25, 21, {Rounds(1, 21), Rounds(8, 16)}),
  MulAddOf(25, 21, {Chained(4, 20), Apart(8, 16)})}
sp_521_mont_reduce_order_21_c32 == {
  MontShift(25, 21, 521, 21, 31),
  MontReduceOf(MulAddOf(25, 21, {Chained(4, 20), Apart(8, 16)}),
               MontShift(25, 21, 521, 21, 31), 21, 20, 21, Bit(20, 21))}
sp_521_cond_add_21_c32 == {CondAddOf(25, 21, {Rounds(1, 21)}), CondAddOf(25, 21, {Rounds(8, 16)})}
sp_521_cond_copy_21_c32 == {CondCopyOf(25, 21, {Rounds(1, 21), Rounds(1, 0)})}
sp_521_from_bin_21_c32 == {FromBin(25, 21)}
sp_521_to_bin_21_c32 == {ToBin(25, 21, 521)}
sp_521_mul_d_21_c32 == {RShift(25, 21), MulDOf(25, 21, {Chained(1, 21), Chained(4, 20)})}
sp_521_lshift_42_c32 == {LShift(25, 42)}

-----------------------------------------------------------------------------
(* Numbers of 1024 bits: 42 digits of 25 bits. *)

sp_1024_mul_7_c32 == {MulWide(25, 7, 63), SqrWide(25, 7, 63), AddOf(25, 7, {Rounds(1, 0)})}
sp_1024_mul_21_c32 == {
  SubOf(25, 14, {Rounds(1, 0)}), AddOf(25, 14, {Rounds(1, 0)}),
  MulThree(MulWide(25, 7, 63), FALSE, FALSE), SqrThree(SqrWide(25, 7, 63), FALSE, FALSE)}
sp_1024_mul_42_c32 == {
  AddOf(25, 21, {Rounds(8, 16)}), AddOf(25, 42, {Rounds(8, 40)}), SubOf(25, 42, {Rounds(8, 40)}),
  MulTwo(MulThree(MulWide(25, 7, 63), FALSE, FALSE), FALSE),
  SqrTwo(SqrThree(SqrWide(25, 7, 63), FALSE, FALSE), FALSE)}
sp_1024_mul_42_small_c32 == {MulDown(25, 42, 64, 0), SqrDown(25, 42, 64, 0)}
sp_1024_mul_d_42_c32 == {
  NormOf(25, 41, {Rounds(1, 40), Rounds(8, 40)}), MulDOf(25, 42, {Chained(1, 42), Chained(4, 40)}),
  MulDOf(25, 84, {Chained(1, 84), Chained(4, 84)}), CondAddOf(25, 42, {Rounds(1, 42)})}
sp_1024_rshift_42_c32 == {
  CondAddOf(25, 42, {Rounds(8, 40)}), SubOf(25, 42, {Rounds(1, 42)}),
  AddOf(25, 42, {Rounds(1, 42)}), RShift(25, 42)}
sp_1024_from_mp_42_c32 == {FromMp(25, 42)}
sp_1024_to_mp_42_c32 == {ToMp(25, 41, 1024)}
sp_1024_mul_add_42_c32 == {
  CmpOf(25, 42, {Rounds(1, 42), Rounds(8, 40)}), CondSubOf(25, 42, {Rounds(1, 42), Rounds(8, 40)}),
  MulAddOf(25, 42, {Chained(4, 40), Apart(8, 40)}), NormOf(25, 42, {Rounds(1, 41), Rounds(8, 40)})}
sp_1024_mont_reduce_42_c32 == {
  MontShift(25, 42, 1024, 41, 32),
  [MontReduceOf(MulAddOf(25, 42, {Chained(4, 40), Apart(8, 40)}),
                MontShift(25, 42, 1024, 41, 32), 41, 40, 24, Above(40)) EXCEPT !.again = TRUE]}
sp_1024_cond_copy_42_c32 == {CondCopyOf(25, 42, {Rounds(1, 42), Rounds(1, 0)})}
sp_1024_from_bin_42_c32 == {FromBin(25, 42)}

-----------------------------------------------------------------------------
\* All of them.
C32Routines == UNION {
  sp_2048_from_mp_72_c32, sp_2048_norm_36_c32, sp_2048_mul_12_c32, sp_2048_norm_12_c32,
  sp_2048_mul_36_c32, sp_2048_mul_72_c32, sp_2048_sqr_12_c32, sp_2048_mul_72_small_c32,
  sp_2048_sqr_72_small_c32, sp_2048_mul_36_small_c32, sp_2048_mul_d_72_c32, sp_2048_cmp_36_c32,
  sp_2048_mul_add_36_c32, sp_2048_mont_reduce_36_c32, sp_2048_mul_d_36_c32,
  sp_2048_mod_exp_36_ladder_c32, sp_2048_mod_exp_36_window_c32, sp_2048_cmp_72_c32,
  sp_2048_mul_add_72_c32, sp_2048_mont_reduce_72_c32, sp_2048_mul_d_144_c32,
  sp_2048_mod_exp_72_ladder_c32, sp_2048_mod_exp_72_window_c32, sp_RsaPublic_2048_72_small_c32,
  sp_RsaPublic_2048_72_c32, sp_RsaPrivate_2048_72_d_c32, sp_RsaPrivate_2048_72_crt_small_c32,
  sp_RsaPrivate_2048_72_crt_c32, sp_ModExp_2048_72_c32, sp_2048_lshift_72_c32,
  sp_2048_mod_exp_2_72_c32, sp_DhExp_2048_72_c32, sp_ModExp_1024_36_c32, sp_3072_from_mp_106_c32,
  sp_3072_mul_106_c32, sp_3072_mul_d_106_c32, sp_3072_mont_reduce_53_c32, sp_3072_mul_53_c32,
  sp_3072_sqr_53_c32, sp_3072_mul_d_53_c32, sp_3072_mod_exp_53_ladder_c32,
  sp_3072_mod_exp_53_window_c32, sp_3072_mont_reduce_106_c32, sp_3072_mul_d_212_c32,
  sp_3072_mod_exp_106_ladder_c32, sp_3072_mod_exp_106_window_c32, sp_RsaPublic_3072_106_small_c32,
  sp_RsaPublic_3072_106_c32, sp_RsaPrivate_3072_106_d_c32, sp_RsaPrivate_3072_106_crt_small_c32,
  sp_RsaPrivate_3072_106_crt_c32, sp_ModExp_3072_106_c32, sp_3072_mod_exp_2_106_c32,
  sp_DhExp_3072_106_c32, sp_ModExp_1536_53_c32, sp_3072_from_mp_112_c32, sp_3072_norm_56_c32,
  sp_3072_mul_14_c32, sp_3072_mul_28_c32, sp_3072_mul_56_c32, sp_3072_mul_112_c32,
  sp_3072_sqr_14_c32, sp_3072_sqr_28_c32, sp_3072_mul_d_112_c32, sp_3072_mul_add_56_c32,
  sp_3072_mont_reduce_56_c32, sp_3072_mul_d_56_c32, sp_3072_mod_exp_56_ladder_c32,
  sp_3072_mod_exp_56_window_c32, sp_3072_mul_add_112_c32, sp_3072_mont_reduce_112_c32,
  sp_3072_mul_d_224_c32, sp_3072_mod_exp_112_ladder_c32, sp_3072_mod_exp_112_window_c32,
  sp_RsaPublic_3072_112_small_c32, sp_RsaPublic_3072_112_c32, sp_RsaPrivate_3072_112_d_c32,
  sp_RsaPrivate_3072_112_crt_small_c32, sp_RsaPrivate_3072_112_crt_c32, sp_ModExp_3072_112_c32,
  sp_3072_lshift_112_c32, sp_3072_mod_exp_2_112_c32, sp_DhExp_3072_112_c32, sp_ModExp_1536_56_c32,
  sp_4096_from_mp_142_c32, sp_4096_mul_142_c32, sp_4096_mul_d_142_c32, sp_4096_mont_reduce_71_c32,
  sp_4096_mul_71_c32, sp_4096_sqr_71_c32, sp_4096_mul_d_71_c32, sp_4096_mod_exp_71_ladder_c32,
  sp_4096_mod_exp_71_window_c32, sp_4096_mont_reduce_142_c32, sp_4096_mul_d_284_c32,
  sp_4096_mod_exp_142_ladder_c32, sp_4096_mod_exp_142_window_c32, sp_RsaPublic_4096_142_small_c32,
  sp_RsaPublic_4096_142_c32, sp_RsaPrivate_4096_142_d_c32, sp_RsaPrivate_4096_142_crt_small_c32,
  sp_RsaPrivate_4096_142_crt_c32, sp_ModExp_4096_142_c32, sp_4096_mod_exp_2_142_c32,
  sp_DhExp_4096_142_c32, sp_4096_from_mp_162_c32, sp_4096_norm_81_c32, sp_4096_mul_9_c32,
  sp_4096_mul_27_c32, sp_4096_norm_27_c32, sp_4096_mul_81_c32, sp_4096_mul_162_c32,
  sp_4096_sqr_81_c32, sp_4096_mul_d_162_c32, sp_4096_mul_add_81_c32, sp_4096_mont_reduce_81_c32,
  sp_4096_mul_d_81_c32, sp_4096_mod_exp_81_ladder_c32, sp_4096_mod_exp_81_window_c32,
  sp_4096_mul_add_162_c32, sp_4096_mont_reduce_162_c32, sp_4096_mul_d_324_c32,
  sp_4096_mod_exp_162_ladder_c32, sp_4096_mod_exp_162_window_c32, sp_RsaPublic_4096_162_small_c32,
  sp_RsaPublic_4096_162_c32, sp_RsaPrivate_4096_162_d_c32, sp_RsaPrivate_4096_162_crt_small_c32,
  sp_RsaPrivate_4096_162_crt_c32, sp_ModExp_4096_162_c32, sp_4096_lshift_162_c32,
  sp_4096_mod_exp_2_162_c32, sp_DhExp_4096_162_c32, sp_256_mul_9_c32, sp_256_sqr_9_c32,
  sp_256_from_mp_9_c32, sp_256_to_mp_9_c32, sp_256_mul_add_9_c32, sp_256_mont_reduce_order_9_c32,
  sp_256_cond_add_9_c32, sp_256_cond_copy_9_c32, sp_256_from_bin_9_c32, sp_256_to_bin_9_c32,
  sp_256_lshift_18_c32, sp_384_mul_15_small_c32, sp_384_mul_15_c32, sp_384_sqr_15_small_c32,
  sp_384_sqr_15_c32, sp_384_add_15_c32, sp_384_from_mp_15_c32, sp_384_to_mp_15_c32,
  sp_384_mul_add_15_c32, sp_384_mont_reduce_order_15_c32, sp_384_cond_add_15_c32,
  sp_384_cond_copy_15_c32, sp_384_from_bin_15_c32, sp_384_to_bin_15_c32, sp_384_mul_d_15_c32,
  sp_384_lshift_30_c32, sp_521_mul_21_c32, sp_521_add_21_c32, sp_521_from_mp_21_c32,
  sp_521_to_mp_21_c32, sp_521_norm_21_c32, sp_521_mul_add_21_c32, sp_521_mont_reduce_order_21_c32,
  sp_521_cond_add_21_c32, sp_521_cond_copy_21_c32, sp_521_from_bin_21_c32, sp_521_to_bin_21_c32,
  sp_521_mul_d_21_c32, sp_521_lshift_42_c32, sp_1024_mul_7_c32, sp_1024_mul_21_c32,
  sp_1024_mul_42_c32, sp_1024_mul_42_small_c32, sp_1024_mul_d_42_c32, sp_1024_rshift_42_c32,
  sp_1024_from_mp_42_c32, sp_1024_to_mp_42_c32, sp_1024_mul_add_42_c32,
  sp_1024_mont_reduce_42_c32, sp_1024_cond_copy_42_c32, sp_1024_from_bin_42_c32}
=============================================================================
