----------------------------- MODULE CpcTables -----------------------------
(***************************************************************************)
(* The data a CPC sketch of DataSketches is compressed with                *)
(* (compression_data.hpp), as it is in the file: an entry is the length of *)
(* a codeword of at most twelve bits, times 2^12, plus the codeword.       *)
(***************************************************************************)
\* Tables for the sixteen phases of a steady sketch.
steady_0 ==
  <<36887, 20489, 28723, 12290, 37143, 20505, 28787, 8192, 41335, 24605, 32827,
    16385, 41847, 20485, 32955, 12294, 45263, 28683, 41207, 20501, 46287,
    28747, 37015, 20493, 50351, 32891, 41719, 24637, 52399, 33019, 41463,
    24579, 49839, 32775, 45775, 24611, 51887, 32903, 41975, 24595, 50863,
    37271, 52911, 28715, 49583, 36951, 46799, 28779, 51631, 40975, 50607,
    32839, 52655, 41487, 50095, 32967, 52143, 45519, 51119, 37207, 53167,
    46543, 49263, 37079, 51311, 37335, 50287, 28699, 52335, 36919, 46031,
    28763, 49775, 41231, 51823, 32807, 50799, 41743, 52847, 32935, 49519,
    47055, 51567, 37175, 50543, 45103, 52591, 37047, 50031, 52079, 51055,
    41103, 53103, 49391, 51439, 41615, 50415, 52463, 49903, 41359, 51951,
    50927, 52975, 41871, 49647, 51695, 50671, 46127, 52719, 50159, 52207,
    45615, 51183, 53231, 49183, 51231, 50207, 52255, 49695, 51743, 50719,
    52767, 49439, 51487, 50463, 52511, 49951, 51999, 50975, 41039, 53023,
    32871, 49311, 41551, 51359, 32999, 50335, 46639, 52383, 37303, 49823,
    45359, 51871, 36983, 50847, 52895, 49567, 41295, 51615, 50591, 52639,
    41807, 50079, 52127, 51103, 46383, 53151, 49247, 51295, 45871, 50271,
    52319, 49759, 46895, 51807, 50783, 52831, 45231, 49503, 51551, 50527,
    52575, 50015, 52063, 51039, 53087, 49375, 51423, 50399, 52447, 49887,
    51935, 50911, 52959, 49631, 51679, 50655, 52703, 50143, 52191, 51167,
    53215, 49215, 51263, 50239, 52287, 49727, 51775, 50751, 52799, 49471,
    51519, 50495, 52543, 49983, 52031, 51007, 53055, 49343, 51391, 50367,
    52415, 49855, 51903, 50879, 52927, 49599, 51647, 50623, 52671, 50111,
    52159, 51135, 53183, 49279, 51327, 50303, 52351, 49791, 51839, 50815,
    52863, 49535, 51583, 50559, 52607, 50047, 52095, 51071, 53119, 49407,
    51455, 50431, 52479, 49919, 51967, 50943, 52991, 49663, 51711, 50687,
    52735, 50175, 52223, 51199, 53247>>

steady_1 ==
  <<41335, 20489, 32827, 12290, 36887, 20505, 28683, 8192, 45903, 24605, 37143,
    16385, 41847, 24637, 32955, 12294, 50351, 28747, 41207, 20485, 46927,
    28715, 37015, 20501, 52399, 32891, 45263, 24579, 49839, 33019, 41719,
    20493, 51887, 32775, 46287, 24611, 50863, 32903, 41463, 24595, 52911,
    37271, 49583, 28779, 51631, 36951, 45775, 24627, 50607, 41975, 52655,
    32839, 50095, 40975, 52143, 32967, 51119, 46799, 53167, 37207, 49263,
    45519, 51311, 37079, 50287, 37335, 52335, 28699, 49775, 36919, 46543,
    28763, 51823, 41487, 50799, 32807, 52847, 41231, 49519, 32935, 51567,
    46031, 50543, 37175, 52591, 47055, 50031, 37047, 52079, 51055, 53103,
    41743, 49391, 51439, 50415, 41103, 52463, 49903, 51951, 41615, 50927,
    52975, 49647, 41359, 51695, 50671, 52719, 45103, 50159, 52207, 51183,
    46127, 53231, 49183, 51231, 50207, 52255, 49695, 51743, 50719, 52767,
    49439, 51487, 50463, 52511, 49951, 51999, 50975, 53023, 41871, 49311,
    32871, 51359, 41039, 50335, 32999, 52383, 45615, 49823, 37303, 51871,
    46639, 50847, 36983, 52895, 49567, 51615, 41551, 50591, 52639, 50079,
    41295, 52127, 51103, 53151, 45359, 49247, 51295, 50271, 46383, 52319,
    49759, 51807, 45871, 50783, 52831, 49503, 46895, 51551, 50527, 52575,
    50015, 52063, 51039, 53087, 45231, 49375, 51423, 50399, 52447, 49887,
    51935, 50911, 52959, 49631, 51679, 50655, 52703, 50143, 52191, 51167,
    53215, 49215, 51263, 50239, 52287, 49727, 51775, 50751, 52799, 49471,
    51519, 50495, 52543, 49983, 52031, 51007, 53055, 49343, 51391, 50367,
    52415, 49855, 51903, 50879, 52927, 49599, 51647, 50623, 52671, 50111,
    52159, 51135, 53183, 49279, 51327, 50303, 52351, 49791, 51839, 50815,
    52863, 49535, 51583, 50559, 52607, 50047, 52095, 51071, 53119, 49407,
    51455, 50431, 52479, 49919, 51967, 50943, 52991, 49663, 51711, 50687,
    52735, 50175, 52223, 51199, 53247>>

steady_2 ==
  <<41335, 20489, 32827, 12290, 41847, 20505, 32955, 8192, 45903, 24605, 36951,
    16385, 46927, 24637, 32891, 12294, 50991, 28683, 41207, 20485, 53039,
    28747, 41719, 20501, 49327, 33019, 45263, 24579, 51375, 32775, 41463,
    20493, 50351, 32903, 46287, 24611, 52399, 32839, 45775, 24595, 49839,
    37207, 51887, 28715, 50863, 37079, 52911, 24627, 49583, 41975, 51631,
    32967, 50607, 40975, 52655, 32807, 50095, 46799, 52143, 37335, 51119,
    45519, 53167, 32935, 49263, 36919, 51311, 28779, 50287, 37175, 52335,
    28699, 49775, 41487, 51823, 32871, 50799, 41231, 52847, 28763, 49519,
    46543, 51567, 37047, 50543, 46031, 52591, 37303, 50031, 52079, 51055,
    41743, 53103, 49391, 51439, 41103, 50415, 52463, 49903, 41615, 51951,
    50927, 52975, 41359, 49647, 51695, 50671, 47055, 52719, 50159, 52207,
    45103, 51183, 53231, 49183, 51231, 50207, 52255, 49695, 51743, 50719,
    52767, 49439, 51487, 50463, 52511, 49951, 51999, 50975, 41871, 53023,
    32999, 49311, 41039, 51359, 32791, 50335, 46127, 52383, 36983, 49823,
    45615, 51871, 32919, 50847, 52895, 49567, 41551, 51615, 50591, 52639,
    41295, 50079, 52127, 51103, 46639, 53151, 49247, 51295, 45359, 50271,
    52319, 49759, 46383, 51807, 50783, 52831, 45871, 49503, 51551, 50527,
    52575, 50015, 52063, 51039, 53087, 49375, 51423, 50399, 52447, 49887,
    51935, 50911, 52959, 49631, 51679, 50655, 52703, 50143, 52191, 51167,
    53215, 49215, 51263, 50239, 52287, 49727, 51775, 50751, 52799, 49471,
    51519, 50495, 52543, 49983, 52031, 51007, 53055, 49343, 51391, 50367,
    52415, 49855, 51903, 50879, 52927, 49599, 51647, 50623, 52671, 50111,
    52159, 51135, 53183, 49279, 51327, 50303, 52351, 49791, 51839, 50815,
    52863, 49535, 51583, 50559, 52607, 50047, 52095, 51071, 53119, 49407,
    51455, 50431, 52479, 49919, 51967, 50943, 52991, 49663, 51711, 50687,
    52735, 50175, 52223, 51199, 53247>>

steady_3 ==
  <<45647, 24605, 37015, 12290, 41463, 20485, 32891, 8192, 50479, 24637, 37271,
    16385, 46671, 24579, 36951, 12294, 52527, 33019, 45391, 20501, 49967,
    28715, 41975, 16393, 52015, 32775, 46415, 24611, 50991, 32903, 45903,
    20493, 53039, 37207, 49327, 24595, 51375, 32839, 46927, 24627, 50351,
    37079, 52399, 28779, 49839, 37335, 51887, 24587, 50863, 45263, 52911,
    32967, 49583, 40975, 51631, 32807, 50607, 46287, 52655, 36919, 50095,
    45775, 52143, 32935, 51119, 41487, 53167, 28699, 49263, 37175, 51311,
    28763, 50287, 46799, 52335, 32871, 49775, 41231, 51823, 28731, 50799,
    52847, 49519, 37047, 51567, 45519, 50543, 37303, 52591, 50031, 52079,
    41743, 51055, 53103, 49391, 36983, 51439, 50415, 52463, 41103, 49903,
    51951, 50927, 41615, 52975, 49647, 51695, 46543, 50671, 52719, 50159,
    46031, 52207, 51183, 53231, 49183, 51231, 50207, 52255, 49695, 51743,
    50719, 52767, 49439, 51487, 50463, 52511, 49951, 51999, 47055, 50975,
    32999, 53023, 41359, 49311, 32791, 51359, 50335, 52383, 37239, 49823,
    45103, 51871, 37111, 50847, 52895, 49567, 41871, 51615, 50591, 52639,
    41039, 50079, 52127, 51103, 46127, 53151, 49247, 51295, 45615, 50271,
    52319, 49759, 46639, 51807, 50783, 52831, 45359, 49503, 51551, 50527,
    52575, 50015, 52063, 51039, 53087, 49375, 51423, 50399, 52447, 49887,
    51935, 50911, 52959, 49631, 51679, 50655, 52703, 50143, 52191, 51167,
    53215, 49215, 51263, 50239, 52287, 49727, 51775, 50751, 52799, 49471,
    51519, 50495, 52543, 49983, 52031, 51007, 53055, 49343, 51391, 50367,
    52415, 49855, 51903, 50879, 52927, 49599, 51647, 50623, 52671, 50111,
    52159, 51135, 53183, 49279, 51327, 50303, 52351, 49791, 51839, 50815,
    52863, 49535, 51583, 50559, 52607, 50047, 52095, 51071, 53119, 49407,
    51455, 50431, 52479, 49919, 51967, 50943, 52991, 49663, 51711, 50687,
    52735, 50175, 52223, 51199, 53247>>

steady_4 ==
  <<45647, 24605, 36951, 12290, 46671, 20485, 32891, 8192, 49967, 28683, 41207,
    16385, 45391, 24637, 37207, 12294, 52015, 33019, 46415, 20501, 50991,
    28747, 41719, 16393, 53039, 32775, 45903, 24579, 49327, 32903, 46927,
    20493, 51375, 37079, 50351, 24611, 52399, 32839, 45263, 24595, 49839,
    41463, 51887, 28715, 50863, 37335, 52911, 24627, 49583, 46287, 51631,
    32967, 50607, 41975, 52655, 28779, 50095, 45775, 52143, 36919, 51119,
    46799, 53167, 32807, 49263, 40975, 51311, 28699, 50287, 37175, 52335,
    28763, 49775, 45519, 51823, 32935, 50799, 41487, 52847, 28731, 49519,
    51567, 50543, 37047, 52591, 46543, 50031, 32871, 52079, 51055, 53103,
    41231, 49391, 51439, 50415, 37303, 52463, 49903, 51951, 41743, 50927,
    52975, 49647, 41103, 51695, 50671, 52719, 46031, 50159, 52207, 51183,
    41615, 53231, 49183, 51231, 50207, 52255, 49695, 51743, 47055, 50719,
    52767, 49439, 51487, 50463, 52511, 49951, 51999, 50975, 45103, 53023,
    32999, 49311, 41359, 51359, 32791, 50335, 52383, 49823, 36983, 51871,
    46127, 50847, 32919, 52895, 49567, 51615, 41871, 50591, 52639, 50079,
    37239, 52127, 51103, 53151, 45615, 49247, 51295, 50271, 41039, 52319,
    49759, 51807, 46639, 50783, 52831, 49503, 45359, 51551, 50527, 52575,
    50015, 52063, 51039, 53087, 46383, 49375, 51423, 50399, 52447, 49887,
    51935, 50911, 52959, 49631, 51679, 50655, 52703, 50143, 52191, 51167,
    53215, 49215, 51263, 50239, 52287, 49727, 51775, 50751, 52799, 49471,
    51519, 50495, 52543, 49983, 52031, 51007, 53055, 49343, 51391, 50367,
    52415, 49855, 51903, 50879, 52927, 49599, 51647, 50623, 52671, 50111,
    52159, 51135, 53183, 49279, 51327, 50303, 52351, 49791, 51839, 50815,
    52863, 49535, 51583, 50559, 52607, 50047, 52095, 51071, 53119, 49407,
    51455, 50431, 52479, 49919, 51967, 50943, 52991, 49663, 51711, 50687,
    52735, 50175, 52223, 51199, 53247>>

steady_5 ==
  <<49455, 24605, 36951, 12290, 45391, 20485, 32891, 8192, 51503, 28683, 41463,
    16385, 50479, 24637, 37207, 12294, 52527, 33019, 46415, 20501, 49967,
    28747, 41975, 16393, 52015, 32775, 50991, 24579, 53039, 32903, 45903,
    20493, 49327, 37079, 51375, 24611, 50351, 32839, 46927, 24595, 52399,
    40975, 49839, 28715, 51887, 37335, 50863, 24627, 52911, 45263, 49583,
    32967, 51631, 41487, 50607, 28779, 52655, 50095, 52143, 36919, 51119,
    46287, 53167, 32807, 49263, 41231, 51311, 28699, 50287, 37175, 52335,
    28763, 49775, 45775, 51823, 32935, 50799, 41743, 52847, 28731, 49519,
    51567, 50543, 37047, 52591, 46799, 50031, 32871, 52079, 51055, 53103,
    41103, 49391, 51439, 50415, 37303, 52463, 49903, 51951, 41615, 50927,
    52975, 49647, 36983, 51695, 50671, 52719, 45519, 50159, 52207, 51183,
    41359, 53231, 49183, 51231, 50207, 52255, 49695, 51743, 46543, 50719,
    52767, 49439, 51487, 50463, 52511, 49951, 51999, 50975, 46031, 53023,
    32999, 49311, 41871, 51359, 32791, 50335, 52383, 49823, 37239, 51871,
    47055, 50847, 32919, 52895, 49567, 51615, 41039, 50591, 52639, 50079,
    37111, 52127, 51103, 53151, 45103, 49247, 51295, 50271, 41551, 52319,
    49759, 51807, 46127, 50783, 52831, 49503, 45615, 51551, 50527, 52575,
    50015, 52063, 51039, 53087, 46639, 49375, 51423, 50399, 52447, 49887,
    51935, 50911, 52959, 49631, 51679, 50655, 52703, 50143, 52191, 51167,
    53215, 49215, 51263, 50239, 52287, 49727, 51775, 50751, 52799, 49471,
    51519, 50495, 52543, 49983, 52031, 51007, 53055, 49343, 51391, 50367,
    52415, 49855, 51903, 50879, 52927, 49599, 51647, 50623, 52671, 50111,
    52159, 51135, 53183, 49279, 51327, 50303, 52351, 49791, 51839, 50815,
    52863, 49535, 51583, 50559, 52607, 50047, 52095, 51071, 53119, 49407,
    51455, 50431, 52479, 49919, 51967, 50943, 52991, 49663, 51711, 50687,
    52735, 50175, 52223, 51199, 53247>>

steady_6 ==
  <<24605, 12290, 24637, 8192, 28683, 16385, 24579, 12294, 32891, 20485, 28747,
    16393, 37015, 24611, 33019, 20501, 37271, 24595, 32775, 20493, 41207,
    28715, 36951, 24627, 45391, 32903, 41719, 28779, 46415, 37207, 41463,
    32839, 41975, 28699, 37079, 28763, 45903, 32967, 40975, 28731, 49967,
    37335, 46927, 32807, 52015, 41487, 45263, 36919, 50991, 41231, 53039,
    37175, 49327, 46287, 51375, 41743, 50351, 52399, 49839, 45775, 51887,
    50863, 52911, 46799, 45519, 32935, 41103, 32871, 49583, 37047, 46543,
    32999, 51631, 41615, 50607, 37303, 52655, 46031, 50095, 41359, 52143,
    47055, 51119, 41871, 53167, 49263, 51311, 45103, 50287, 52335, 49775,
    51823, 50799, 52847, 49519, 51567, 50543, 52591, 50031, 46127, 52079,
    51055, 53103, 49391, 51439, 50415, 52463, 49903, 51951, 50927, 52975,
    49647, 51695, 50671, 52719, 50159, 52207, 51183, 53231, 49183, 51231,
    50207, 52255, 49695, 51743, 50719, 52767, 49439, 51487, 36983, 45615,
    32791, 50463, 41039, 52511, 37239, 49951, 46639, 51999, 41551, 50975,
    53023, 49311, 45359, 51359, 50335, 52383, 46383, 49823, 51871, 50847,
    52895, 49567, 51615, 50591, 52639, 50079, 52127, 51103, 53151, 49247,
    51295, 50271, 52319, 49759, 51807, 50783, 52831, 49503, 51551, 50527,
    52575, 50015, 52063, 51039, 53087, 49375, 51423, 50399, 52447, 49887,
    51935, 50911, 52959, 49631, 51679, 50655, 52703, 50143, 52191, 51167,
    53215, 49215, 51263, 50239, 52287, 49727, 51775, 50751, 52799, 49471,
    51519, 50495, 52543, 49983, 52031, 51007, 53055, 49343, 51391, 50367,
    52415, 49855, 51903, 50879, 52927, 49599, 51647, 50623, 52671, 50111,
    52159, 51135, 53183, 49279, 51327, 50303, 52351, 49791, 51839, 50815,
    52863, 49535, 51583, 50559, 52607, 50047, 52095, 51071, 53119, 49407,
    51455, 50431, 52479, 49919, 51967, 50943, 52991, 49663, 51711, 50687,
    52735, 50175, 52223, 51199, 53247>>

steady_7 ==
  <<28683, 12290, 24605, 8192, 28747, 16385, 24637, 12294, 32775, 20485, 28715,
    16393, 37015, 24579, 32903, 20501, 37271, 24611, 32839, 20493, 41207,
    28779, 36951, 24595, 45391, 32967, 41719, 28699, 50479, 37207, 46415,
    32807, 41463, 28763, 37079, 24627, 45903, 32935, 41975, 28731, 52527,
    37335, 46927, 32871, 49967, 40975, 52015, 36919, 50991, 41487, 53039,
    37175, 49327, 45263, 51375, 41231, 50351, 52399, 49839, 46287, 51887,
    50863, 52911, 45775, 46799, 32999, 41743, 28795, 49583, 37047, 45519,
    32791, 51631, 41103, 50607, 37303, 52655, 46543, 50095, 41615, 52143,
    46031, 51119, 41359, 53167, 49263, 51311, 47055, 50287, 52335, 49775,
    51823, 50799, 52847, 49519, 51567, 50543, 52591, 50031, 45103, 52079,
    51055, 53103, 49391, 51439, 50415, 52463, 49903, 51951, 50927, 52975,
    49647, 51695, 50671, 52719, 50159, 52207, 51183, 53231, 49183, 51231,
    50207, 52255, 49695, 51743, 50719, 52767, 49439, 51487, 41871, 46127,
    36983, 50463, 41039, 52511, 37239, 49951, 45615, 51999, 41551, 50975,
    53023, 49311, 46639, 51359, 50335, 52383, 45359, 49823, 51871, 50847,
    52895, 49567, 51615, 50591, 52639, 50079, 52127, 51103, 53151, 49247,
    51295, 50271, 52319, 49759, 51807, 50783, 52831, 49503, 51551, 50527,
    52575, 50015, 52063, 51039, 53087, 49375, 51423, 50399, 52447, 49887,
    51935, 50911, 52959, 49631, 51679, 50655, 52703, 50143, 52191, 51167,
    53215, 49215, 51263, 50239, 52287, 49727, 51775, 50751, 52799, 49471,
    51519, 50495, 52543, 49983, 52031, 51007, 53055, 49343, 51391, 50367,
    52415, 49855, 51903, 50879, 52927, 49599, 51647, 50623, 52671, 50111,
    52159, 51135, 53183, 49279, 51327, 50303, 52351, 49791, 51839, 50815,
    52863, 49535, 51583, 50559, 52607, 50047, 52095, 51071, 53119, 49407,
    51455, 50431, 52479, 49919, 51967, 50943, 52991, 49663, 51711, 50687,
    52735, 50175, 52223, 51199, 53247>>

steady_8 ==
  <<28723, 16390, 24605, 8192, 28787, 16398, 24637, 12290, 32891, 20485, 28683,
    16385, 37015, 20501, 33019, 16393, 41207, 24579, 32775, 20493, 41719,
    28747, 37271, 24611, 45903, 32903, 41463, 28715, 46927, 32839, 41975,
    28779, 45263, 28699, 36951, 24595, 46287, 32967, 40975, 28763, 50991,
    37207, 45775, 32807, 53039, 37079, 46799, 32935, 49327, 41487, 51375,
    37335, 50351, 41231, 52399, 36919, 49839, 51887, 50863, 45519, 52911,
    49583, 51631, 46543, 50607, 32871, 41743, 28731, 52655, 37175, 46031,
    32999, 50095, 41103, 52143, 37047, 51119, 41615, 53167, 37303, 49263,
    47055, 51311, 41359, 50287, 45103, 52335, 41871, 49775, 51823, 50799,
    52847, 49519, 51567, 50543, 52591, 50031, 52079, 51055, 46127, 53103,
    49391, 51439, 45615, 50415, 52463, 49903, 51951, 50927, 52975, 49647,
    51695, 50671, 52719, 50159, 52207, 51183, 53231, 49183, 51231, 50207,
    52255, 49695, 51743, 50719, 52767, 49439, 51487, 50463, 36983, 52511,
    32791, 49951, 41039, 51999, 37239, 50975, 46639, 53023, 41551, 49311,
    45359, 51359, 41295, 50335, 52383, 49823, 46383, 51871, 50847, 52895,
    45871, 49567, 51615, 50591, 52639, 50079, 52127, 51103, 53151, 49247,
    51295, 50271, 52319, 49759, 51807, 50783, 52831, 49503, 51551, 50527,
    52575, 50015, 52063, 51039, 53087, 49375, 51423, 50399, 52447, 49887,
    51935, 50911, 52959, 49631, 51679, 50655, 52703, 50143, 52191, 51167,
    53215, 49215, 51263, 50239, 52287, 49727, 51775, 50751, 52799, 49471,
    51519, 50495, 52543, 49983, 52031, 51007, 53055, 49343, 51391, 50367,
    52415, 49855, 51903, 50879, 52927, 49599, 51647, 50623, 52671, 50111,
    52159, 51135, 53183, 49279, 51327, 50303, 52351, 49791, 51839, 50815,
    52863, 49535, 51583, 50559, 52607, 50047, 52095, 51071, 53119, 49407,
    51455, 50431, 52479, 49919, 51967, 50943, 52991, 49663, 51711, 50687,
    52735, 50175, 52223, 51199, 53247>>

steady_9 ==
  <<28723, 16390, 24605, 8192, 28787, 16398, 24637, 12290, 37015, 20485, 28683,
    16385, 37271, 24579, 32891, 16393, 41207, 24611, 33019, 20501, 41719,
    28747, 36951, 20493, 45903, 32775, 41463, 28715, 50991, 32903, 41975,
    28779, 46927, 28699, 37207, 24595, 45263, 32839, 40975, 28763, 53039,
    37079, 46287, 32967, 49327, 37335, 45775, 32807, 51375, 41487, 50351,
    36919, 52399, 41231, 49839, 37175, 51887, 50863, 52911, 41743, 49583,
    51631, 50607, 46799, 52655, 32935, 45519, 28731, 50095, 37047, 46543,
    32871, 52143, 41103, 51119, 37303, 53167, 41615, 49263, 36983, 51311,
    46031, 50287, 41359, 52335, 47055, 49775, 41871, 51823, 50799, 52847,
    45103, 49519, 51567, 50543, 52591, 50031, 52079, 51055, 46127, 53103,
    49391, 51439, 45615, 50415, 52463, 49903, 51951, 50927, 52975, 49647,
    51695, 50671, 52719, 50159, 52207, 51183, 53231, 49183, 51231, 50207,
    52255, 49695, 51743, 50719, 52767, 49439, 51487, 50463, 37239, 52511,
    32999, 49951, 41039, 51999, 32791, 50975, 46639, 53023, 41551, 49311,
    45359, 51359, 41295, 50335, 52383, 49823, 46383, 51871, 50847, 52895,
    45871, 49567, 51615, 50591, 52639, 50079, 52127, 51103, 53151, 49247,
    51295, 50271, 52319, 49759, 51807, 50783, 52831, 49503, 51551, 50527,
    52575, 50015, 52063, 51039, 53087, 49375, 51423, 50399, 52447, 49887,
    51935, 50911, 52959, 49631, 51679, 50655, 52703, 50143, 52191, 51167,
    53215, 49215, 51263, 50239, 52287, 49727, 51775, 50751, 52799, 49471,
    51519, 50495, 52543, 49983, 52031, 51007, 53055, 49343, 51391, 50367,
    52415, 49855, 51903, 50879, 52927, 49599, 51647, 50623, 52671, 50111,
    52159, 51135, 53183, 49279, 51327, 50303, 52351, 49791, 51839, 50815,
    52863, 49535, 51583, 50559, 52607, 50047, 52095, 51071, 53119, 49407,
    51455, 50431, 52479, 49919, 51967, 50943, 52991, 49663, 51711, 50687,
    52735, 50175, 52223, 51199, 53247>>

steady_10 ==
  <<28683, 16390, 24605, 8192, 32891, 16398, 24637, 12290, 36887, 20485, 28747,
    16385, 37143, 24579, 33019, 16393, 41335, 24611, 37015, 20501, 41847,
    28715, 37271, 20493, 45903, 32775, 41207, 28779, 49327, 32903, 41719,
    28699, 46927, 32839, 41463, 24595, 45263, 32967, 41975, 24627, 51375,
    36951, 46287, 32807, 50351, 37207, 45775, 32935, 52399, 40975, 49839,
    37079, 51887, 41487, 50863, 37335, 52911, 46799, 49583, 41231, 51631,
    50607, 52655, 41743, 50095, 36919, 45519, 28763, 52143, 37175, 46543,
    28731, 51119, 41103, 53167, 37047, 49263, 41615, 51311, 37303, 50287,
    46031, 52335, 41359, 49775, 47055, 51823, 41871, 50799, 52847, 49519,
    45103, 51567, 50543, 52591, 46127, 50031, 52079, 51055, 45615, 53103,
    49391, 51439, 46639, 50415, 52463, 49903, 51951, 50927, 52975, 49647,
    51695, 50671, 52719, 50159, 52207, 51183, 53231, 49183, 51231, 50207,
    52255, 49695, 51743, 50719, 52767, 49439, 51487, 50463, 36983, 52511,
    32871, 49951, 41039, 51999, 32999, 50975, 45359, 53023, 41551, 49311,
    46383, 51359, 41295, 50335, 52383, 49823, 45871, 51871, 50847, 52895,
    46895, 49567, 51615, 50591, 52639, 50079, 52127, 51103, 53151, 49247,
    51295, 50271, 52319, 49759, 51807, 50783, 52831, 49503, 51551, 50527,
    52575, 50015, 52063, 51039, 53087, 49375, 51423, 50399, 52447, 49887,
    51935, 50911, 52959, 49631, 51679, 50655, 52703, 50143, 52191, 51167,
    53215, 49215, 51263, 50239, 52287, 49727, 51775, 50751, 52799, 49471,
    51519, 50495, 52543, 49983, 52031, 51007, 53055, 49343, 51391, 50367,
    52415, 49855, 51903, 50879, 52927, 49599, 51647, 50623, 52671, 50111,
    52159, 51135, 53183, 49279, 51327, 50303, 52351, 49791, 51839, 50815,
    52863, 49535, 51583, 50559, 52607, 50047, 52095, 51071, 53119, 49407,
    51455, 50431, 52479, 49919, 51967, 50943, 52991, 49663, 51711, 50687,
    52735, 50175, 52223, 51199, 53247>>

steady_11 ==
  <<32827, 16390, 24605, 8192, 32955, 16398, 24637, 12290, 36887, 20485, 32891,
    16385, 37143, 24579, 33019, 16393, 41335, 24611, 37015, 20501, 41847,
    28715, 37271, 20493, 45903, 32775, 41207, 24595, 49327, 32903, 41719,
    28779, 46927, 32839, 41463, 24627, 45263, 32967, 41975, 24587, 51375,
    36951, 46287, 32807, 50351, 37207, 45775, 32935, 52399, 40975, 49839,
    37079, 51887, 41487, 50863, 37335, 52911, 46799, 49583, 41231, 51631,
    50607, 52655, 41743, 50095, 36919, 45519, 28699, 52143, 37175, 46543,
    28763, 51119, 41103, 53167, 37047, 49263, 41615, 51311, 37303, 50287,
    46031, 52335, 41359, 49775, 47055, 51823, 41871, 50799, 52847, 49519,
    45103, 51567, 50543, 52591, 46127, 50031, 52079, 51055, 45615, 53103,
    49391, 51439, 46639, 50415, 52463, 49903, 51951, 50927, 52975, 49647,
    51695, 50671, 52719, 50159, 52207, 51183, 53231, 49183, 51231, 50207,
    52255, 49695, 51743, 50719, 52767, 49439, 51487, 50463, 41039, 52511,
    32871, 49951, 41551, 51999, 32999, 50975, 45359, 53023, 36983, 49311,
    46383, 51359, 41295, 50335, 52383, 49823, 45871, 51871, 50847, 52895,
    46895, 49567, 51615, 50591, 52639, 50079, 52127, 51103, 53151, 49247,
    51295, 50271, 52319, 49759, 51807, 50783, 52831, 49503, 51551, 50527,
    52575, 50015, 52063, 51039, 53087, 49375, 51423, 50399, 52447, 49887,
    51935, 50911, 52959, 49631, 51679, 50655, 52703, 50143, 52191, 51167,
    53215, 49215, 51263, 50239, 52287, 49727, 51775, 50751, 52799, 49471,
    51519, 50495, 52543, 49983, 52031, 51007, 53055, 49343, 51391, 50367,
    52415, 49855, 51903, 50879, 52927, 49599, 51647, 50623, 52671, 50111,
    52159, 51135, 53183, 49279, 51327, 50303, 52351, 49791, 51839, 50815,
    52863, 49535, 51583, 50559, 52607, 50047, 52095, 51071, 53119, 49407,
    51455, 50431, 52479, 49919, 51967, 50943, 52991, 49663, 51711, 50687,
    52735, 50175, 52223, 51199, 53247>>

steady_12 ==
  <<32891, 16390, 24605, 8192, 33019, 16398, 28683, 12290, 37015, 20485, 32775,
    16385, 37271, 24637, 32903, 16393, 41335, 28747, 36951, 20501, 45903,
    28715, 37207, 20493, 50991, 32839, 41847, 24579, 53039, 32967, 41207,
    24611, 49327, 32807, 41719, 24595, 51375, 32935, 41463, 24627, 50351,
    37079, 46927, 28779, 52399, 37335, 45263, 28699, 49839, 41975, 51887,
    36919, 50863, 40975, 52911, 37175, 49583, 46287, 51631, 41487, 50607,
    45775, 52655, 41231, 50095, 37047, 46799, 28763, 52143, 37303, 45519,
    28731, 51119, 41743, 53167, 32871, 49263, 41103, 51311, 36983, 50287,
    46543, 52335, 41615, 49775, 46031, 51823, 41359, 50799, 52847, 49519,
    47055, 51567, 50543, 52591, 45103, 50031, 52079, 51055, 46127, 53103,
    49391, 51439, 45615, 50415, 52463, 49903, 51951, 50927, 52975, 49647,
    51695, 50671, 52719, 50159, 52207, 51183, 53231, 49183, 51231, 50207,
    52255, 49695, 51743, 50719, 52767, 49439, 51487, 50463, 41871, 52511,
    32999, 49951, 41039, 51999, 32791, 50975, 46639, 53023, 41551, 49311,
    45359, 51359, 41295, 50335, 52383, 49823, 46383, 51871, 50847, 52895,
    45871, 49567, 51615, 50591, 52639, 50079, 52127, 51103, 53151, 49247,
    51295, 50271, 52319, 49759, 51807, 50783, 52831, 49503, 51551, 50527,
    52575, 50015, 52063, 51039, 53087, 49375, 51423, 50399, 52447, 49887,
    51935, 50911, 52959, 49631, 51679, 50655, 52703, 50143, 52191, 51167,
    53215, 49215, 51263, 50239, 52287, 49727, 51775, 50751, 52799, 49471,
    51519, 50495, 52543, 49983, 52031, 51007, 53055, 49343, 51391, 50367,
    52415, 49855, 51903, 50879, 52927, 49599, 51647, 50623, 52671, 50111,
    52159, 51135, 53183, 49279, 51327, 50303, 52351, 49791, 51839, 50815,
    52863, 49535, 51583, 50559, 52607, 50047, 52095, 51071, 53119, 49407,
    51455, 50431, 52479, 49919, 51967, 50943, 52991, 49663, 51711, 50687,
    52735, 50175, 52223, 51199, 53247>>

steady_13 ==
  <<32827, 16390, 28723, 12290, 32955, 16398, 28787, 8192, 41207, 24605, 32891,
    16385, 41719, 20485, 33019, 16393, 45903, 28683, 36951, 20501, 46927,
    28747, 37207, 20493, 50991, 32775, 41463, 24637, 53039, 32903, 41975,
    24579, 49327, 32839, 40975, 24611, 51375, 32967, 41487, 24595, 50351,
    37079, 45263, 28715, 52399, 37335, 46287, 28779, 49839, 41231, 51887,
    32807, 50863, 41743, 52911, 32935, 49583, 45775, 51631, 41103, 50607,
    46799, 52655, 41615, 50095, 36919, 45519, 28699, 52143, 37175, 46543,
    28763, 51119, 41359, 53167, 32871, 49263, 41871, 51311, 32999, 50287,
    46031, 52335, 37047, 49775, 47055, 51823, 37303, 50799, 52847, 49519,
    45103, 51567, 50543, 52591, 46127, 50031, 52079, 51055, 45615, 53103,
    49391, 51439, 46639, 50415, 52463, 49903, 51951, 50927, 52975, 49647,
    51695, 50671, 52719, 50159, 52207, 51183, 53231, 49183, 51231, 50207,
    52255, 49695, 51743, 50719, 52767, 49439, 51487, 50463, 41039, 52511,
    32791, 49951, 41551, 51999, 32919, 50975, 45359, 53023, 36983, 49311,
    46383, 51359, 37239, 50335, 52383, 49823, 45871, 51871, 50847, 52895,
    41295, 49567, 51615, 50591, 52639, 50079, 52127, 51103, 53151, 49247,
    51295, 50271, 52319, 49759, 51807, 50783, 52831, 49503, 51551, 50527,
    52575, 50015, 52063, 51039, 53087, 49375, 51423, 50399, 52447, 49887,
    51935, 50911, 52959, 49631, 51679, 50655, 52703, 50143, 52191, 51167,
    53215, 49215, 51263, 50239, 52287, 49727, 51775, 50751, 52799, 49471,
    51519, 50495, 52543, 49983, 52031, 51007, 53055, 49343, 51391, 50367,
    52415, 49855, 51903, 50879, 52927, 49599, 51647, 50623, 52671, 50111,
    52159, 51135, 53183, 49279, 51327, 50303, 52351, 49791, 51839, 50815,
    52863, 49535, 51583, 50559, 52607, 50047, 52095, 51071, 53119, 49407,
    51455, 50431, 52479, 49919, 51967, 50943, 52991, 49663, 51711, 50687,
    52735, 50175, 52223, 51199, 53247>>

steady_14 ==
  <<36887, 16390, 28723, 12290, 37143, 16398, 28787, 8192, 41335, 24605, 32827,
    16385, 41847, 20485, 32955, 16393, 45263, 28683, 37015, 20501, 46287,
    28747, 37271, 20493, 50351, 32891, 41207, 24637, 52399, 33019, 41719,
    24579, 49839, 32775, 41463, 24611, 51887, 32903, 41975, 24595, 50863,
    36951, 45775, 28715, 52911, 37207, 46799, 28779, 49583, 40975, 51631,
    32839, 50607, 41487, 52655, 32967, 50095, 45519, 52143, 41231, 51119,
    46543, 53167, 37079, 49263, 37335, 46031, 28699, 51311, 36919, 47055,
    28763, 50287, 41743, 52335, 32807, 49775, 41103, 51823, 32935, 50799,
    45103, 52847, 37175, 49519, 46127, 51567, 37047, 50543, 52591, 50031,
    45615, 52079, 51055, 53103, 41615, 49391, 51439, 50415, 41359, 52463,
    49903, 51951, 41871, 50927, 52975, 49647, 51695, 50671, 52719, 50159,
    46639, 52207, 51183, 53231, 49183, 51231, 50207, 52255, 49695, 51743,
    50719, 52767, 49439, 51487, 50463, 52511, 49951, 51999, 41039, 50975,
    32871, 53023, 41551, 49311, 32999, 51359, 45359, 50335, 37303, 52383,
    46383, 49823, 36983, 51871, 50847, 52895, 41295, 49567, 51615, 50591,
    41807, 52639, 50079, 52127, 51103, 53151, 49247, 51295, 45871, 50271,
    52319, 49759, 46895, 51807, 50783, 52831, 45231, 49503, 51551, 50527,
    52575, 50015, 52063, 51039, 53087, 49375, 51423, 50399, 52447, 49887,
    51935, 50911, 52959, 49631, 51679, 50655, 52703, 50143, 52191, 51167,
    53215, 49215, 51263, 50239, 52287, 49727, 51775, 50751, 52799, 49471,
    51519, 50495, 52543, 49983, 52031, 51007, 53055, 49343, 51391, 50367,
    52415, 49855, 51903, 50879, 52927, 49599, 51647, 50623, 52671, 50111,
    52159, 51135, 53183, 49279, 51327, 50303, 52351, 49791, 51839, 50815,
    52863, 49535, 51583, 50559, 52607, 50047, 52095, 51071, 53119, 49407,
    51455, 50431, 52479, 49919, 51967, 50943, 52991, 49663, 51711, 50687,
    52735, 50175, 52223, 51199, 53247>>

steady_15 ==
  <<36887, 16390, 28723, 12290, 37143, 16398, 28787, 8192, 41207, 24605, 32827,
    16385, 41719, 20485, 32955, 16393, 45263, 28683, 37015, 20501, 46287,
    28747, 37271, 20493, 49327, 32891, 45775, 24637, 51375, 33019, 41463,
    24579, 50351, 32775, 46799, 24611, 52399, 32903, 41975, 24595, 49839,
    36951, 51887, 28715, 50863, 37207, 45519, 28779, 52911, 40975, 49583,
    32839, 51631, 41487, 50607, 32967, 52655, 46543, 50095, 37079, 52143,
    46031, 51119, 37335, 53167, 36919, 49263, 28699, 51311, 37175, 47055,
    28763, 50287, 41231, 52335, 32807, 49775, 41743, 51823, 32935, 50799,
    45103, 52847, 37047, 49519, 46127, 51567, 37303, 50543, 52591, 50031,
    41103, 52079, 51055, 53103, 41615, 49391, 51439, 50415, 41359, 52463,
    49903, 51951, 41871, 50927, 52975, 49647, 51695, 50671, 52719, 50159,
    45615, 52207, 51183, 53231, 49183, 51231, 50207, 52255, 49695, 51743,
    50719, 52767, 49439, 51487, 50463, 52511, 49951, 51999, 41039, 50975,
    32871, 53023, 41551, 49311, 32999, 51359, 46639, 50335, 36983, 52383,
    45359, 49823, 37239, 51871, 50847, 52895, 41295, 49567, 51615, 50591,
    41807, 52639, 50079, 52127, 51103, 53151, 49247, 51295, 46383, 50271,
    52319, 49759, 45871, 51807, 50783, 52831, 46895, 49503, 51551, 50527,
    52575, 50015, 52063, 51039, 53087, 49375, 51423, 50399, 52447, 49887,
    51935, 50911, 52959, 49631, 51679, 50655, 52703, 50143, 52191, 51167,
    53215, 49215, 51263, 50239, 52287, 49727, 51775, 50751, 52799, 49471,
    51519, 50495, 52543, 49983, 52031, 51007, 53055, 49343, 51391, 50367,
    52415, 49855, 51903, 50879, 52927, 49599, 51647, 50623, 52671, 50111,
    52159, 51135, 53183, 49279, 51327, 50303, 52351, 49791, 51839, 50815,
    52863, 49535, 51583, 50559, 52607, 50047, 52095, 51071, 53119, 49407,
    51455, 50431, 52479, 49919, 51967, 50943, 52991, 49663, 51711, 50687,
    52735, 50175, 52223, 51199, 53247>>

\* Tables for the six ranges of a sketch that is not yet steady.
midrange_0 ==
  <<4096, 8193, 16387, 20491, 20507, 24583, 32855, 36983, 24615, 32983, 37239,
    41463, 41975, 45199, 50575, 52623, 28695, 32823, 40975, 46223, 45711,
    50063, 52111, 51087, 53135, 49231, 51279, 50255, 52303, 49743, 51791,
    50767, 32951, 41487, 46735, 52815, 49487, 51535, 50511, 52559, 49999,
    52047, 51023, 53071, 49359, 51407, 50383, 52431, 49871, 51919, 50895,
    52943, 49615, 51663, 50639, 52687, 50127, 52175, 51151, 53199, 49199,
    51247, 50223, 52271, 37111, 41231, 49711, 51759, 50735, 52783, 49455,
    51503, 50479, 52527, 49967, 52015, 50991, 53039, 49327, 51375, 50351,
    52399, 49839, 51887, 50863, 52911, 49583, 51631, 50607, 52655, 50095,
    52143, 51119, 53167, 49263, 51311, 50287, 52335, 49775, 51823, 50799,
    52847, 49519, 51567, 50543, 52591, 50031, 52079, 51055, 53103, 49391,
    51439, 50415, 52463, 49903, 51951, 50927, 52975, 49647, 51695, 50671,
    52719, 50159, 52207, 51183, 53231, 49183, 51231, 41743, 45455, 50207,
    52255, 49695, 51743, 50719, 52767, 49439, 51487, 50463, 52511, 49951,
    51999, 50975, 53023, 49311, 51359, 50335, 52383, 49823, 51871, 50847,
    52895, 49567, 51615, 50591, 52639, 50079, 52127, 51103, 53151, 49247,
    51295, 50271, 52319, 49759, 51807, 50783, 52831, 49503, 51551, 50527,
    52575, 50015, 52063, 51039, 53087, 49375, 51423, 50399, 52447, 49887,
    51935, 50911, 52959, 49631, 51679, 50655, 52703, 50143, 52191, 51167,
    53215, 49215, 51263, 50239, 52287, 49727, 51775, 50751, 52799, 49471,
    51519, 50495, 52543, 49983, 52031, 51007, 53055, 49343, 51391, 50367,
    52415, 49855, 51903, 50879, 52927, 49599, 51647, 50623, 52671, 50111,
    52159, 51135, 53183, 49279, 51327, 50303, 52351, 49791, 51839, 50815,
    52863, 49535, 51583, 50559, 52607, 50047, 52095, 51071, 53119, 49407,
    51455, 50431, 52479, 49919, 51967, 50943, 52991, 49663, 51711, 50687,
    52735, 50175, 52223, 51199, 53247>>

midrange_1 ==
  <<8192, 8194, 12289, 16389, 16397, 20483, 24587, 24619, 20499, 24603, 28679,
    28743, 32791, 37047, 41463, 41975, 24635, 28711, 32919, 32855, 37303,
    40975, 45455, 46479, 41487, 45967, 50511, 52559, 49999, 52047, 51023,
    53071, 28775, 32983, 36983, 41231, 41743, 46991, 49359, 51407, 45135,
    50383, 52431, 49871, 51919, 50895, 52943, 49615, 51663, 50639, 52687,
    50127, 52175, 51151, 53199, 49199, 51247, 50223, 52271, 49711, 51759,
    50735, 52783, 49455, 32823, 37239, 41103, 46159, 45647, 51503, 50479,
    52527, 49967, 52015, 50991, 53039, 49327, 51375, 50351, 52399, 49839,
    51887, 50863, 52911, 49583, 51631, 50607, 52655, 50095, 52143, 51119,
    53167, 49263, 51311, 50287, 52335, 49775, 51823, 50799, 52847, 49519,
    51567, 50543, 52591, 50031, 52079, 51055, 53103, 49391, 51439, 50415,
    52463, 49903, 51951, 50927, 52975, 49647, 51695, 50671, 52719, 50159,
    52207, 51183, 53231, 49183, 51231, 50207, 52255, 37111, 41615, 46671,
    45391, 49695, 51743, 50719, 52767, 49439, 51487, 50463, 52511, 49951,
    51999, 50975, 53023, 49311, 51359, 50335, 52383, 49823, 51871, 50847,
    52895, 49567, 51615, 50591, 52639, 50079, 52127, 51103, 53151, 49247,
    51295, 50271, 52319, 49759, 51807, 50783, 52831, 49503, 51551, 50527,
    52575, 50015, 52063, 51039, 53087, 49375, 51423, 50399, 52447, 49887,
    51935, 50911, 52959, 49631, 51679, 50655, 52703, 50143, 52191, 51167,
    53215, 49215, 51263, 50239, 52287, 49727, 51775, 50751, 52799, 49471,
    51519, 50495, 52543, 49983, 52031, 51007, 53055, 49343, 51391, 50367,
    52415, 49855, 51903, 50879, 52927, 49599, 51647, 50623, 52671, 50111,
    52159, 51135, 53183, 49279, 51327, 50303, 52351, 49791, 51839, 50815,
    52863, 49535, 51583, 50559, 52607, 50047, 52095, 51071, 53119, 49407,
    51455, 50431, 52479, 49919, 51967, 50943, 52991, 49663, 51711, 50687,
    52735, 50175, 52223, 51199, 53247>>

midrange_2 ==
  <<8192, 8194, 16389, 12289, 20483, 16397, 24587, 24619, 24603, 20499, 28731,
    28795, 32871, 32999, 37079, 37335, 28679, 28743, 32791, 32919, 36919,
    37175, 41463, 41975, 40975, 41487, 45967, 46991, 49359, 51407, 50383,
    52431, 32855, 28711, 37047, 37303, 41231, 41743, 45135, 46159, 45647,
    46671, 49871, 51919, 50895, 52943, 49615, 51663, 50639, 52687, 50127,
    52175, 51151, 53199, 49199, 51247, 50223, 52271, 49711, 51759, 50735,
    52783, 49455, 51503, 36983, 37239, 41103, 41615, 45391, 46415, 50479,
    52527, 49967, 52015, 50991, 53039, 49327, 51375, 50351, 52399, 49839,
    51887, 50863, 52911, 49583, 51631, 50607, 52655, 50095, 52143, 51119,
    53167, 49263, 51311, 50287, 52335, 49775, 51823, 50799, 52847, 49519,
    51567, 50543, 52591, 50031, 52079, 51055, 53103, 49391, 51439, 50415,
    52463, 49903, 51951, 50927, 52975, 49647, 51695, 50671, 52719, 50159,
    52207, 51183, 53231, 49183, 51231, 50207, 52255, 41359, 37111, 45903,
    46927, 49695, 51743, 50719, 52767, 49439, 51487, 50463, 52511, 49951,
    51999, 50975, 53023, 49311, 51359, 50335, 52383, 49823, 51871, 50847,
    52895, 49567, 51615, 50591, 52639, 50079, 52127, 51103, 53151, 49247,
    51295, 50271, 52319, 49759, 51807, 50783, 52831, 49503, 51551, 50527,
    52575, 50015, 52063, 51039, 53087, 49375, 51423, 50399, 52447, 49887,
    51935, 50911, 52959, 49631, 51679, 50655, 52703, 50143, 52191, 51167,
    53215, 49215, 51263, 50239, 52287, 49727, 51775, 50751, 52799, 49471,
    51519, 50495, 52543, 49983, 52031, 51007, 53055, 49343, 51391, 50367,
    52415, 49855, 51903, 50879, 52927, 49599, 51647, 50623, 52671, 50111,
    52159, 51135, 53183, 49279, 51327, 50303, 52351, 49791, 51839, 50815,
    52863, 49535, 51583, 50559, 52607, 50047, 52095, 51071, 53119, 49407,
    51455, 50431, 52479, 49919, 51967, 50943, 52991, 49663, 51711, 50687,
    52735, 50175, 52223, 51199, 53247>>

midrange_3 ==
  <<12290, 8192, 16385, 12294, 20493, 16393, 20509, 16389, 24595, 20483, 24627,
    24587, 32807, 28699, 32935, 28763, 28731, 24619, 28795, 28679, 37079,
    32871, 37335, 32999, 41463, 36919, 41975, 40975, 50639, 45135, 52687,
    46159, 32791, 28743, 37175, 32919, 41487, 37047, 41231, 37303, 45647,
    41743, 46671, 45391, 50127, 52175, 51151, 53199, 49199, 46415, 51247,
    50223, 52271, 49711, 51759, 50735, 52783, 49455, 51503, 50479, 52527,
    49967, 52015, 50991, 36983, 32855, 41103, 37239, 45903, 41615, 46927,
    45263, 53039, 46287, 49327, 51375, 50351, 52399, 49839, 51887, 50863,
    52911, 49583, 51631, 50607, 52655, 50095, 52143, 51119, 53167, 49263,
    51311, 50287, 52335, 49775, 51823, 50799, 52847, 49519, 51567, 50543,
    52591, 50031, 52079, 51055, 53103, 49391, 51439, 50415, 52463, 49903,
    51951, 50927, 52975, 49647, 51695, 50671, 52719, 50159, 52207, 51183,
    53231, 49183, 51231, 50207, 52255, 49695, 51743, 41359, 37111, 45775,
    41871, 50719, 46799, 52767, 45519, 49439, 51487, 50463, 52511, 49951,
    51999, 50975, 53023, 49311, 51359, 50335, 52383, 49823, 51871, 50847,
    52895, 49567, 51615, 50591, 52639, 50079, 52127, 51103, 53151, 49247,
    51295, 50271, 52319, 49759, 51807, 50783, 52831, 49503, 51551, 50527,
    52575, 50015, 52063, 51039, 53087, 49375, 51423, 50399, 52447, 49887,
    51935, 50911, 52959, 49631, 51679, 50655, 52703, 50143, 52191, 51167,
    53215, 49215, 51263, 50239, 52287, 49727, 51775, 50751, 52799, 49471,
    51519, 50495, 52543, 49983, 52031, 51007, 53055, 49343, 51391, 50367,
    52415, 49855, 51903, 50879, 52927, 49599, 51647, 50623, 52671, 50111,
    52159, 51135, 53183, 49279, 51327, 50303, 52351, 49791, 51839, 50815,
    52863, 49535, 51583, 50559, 52607, 50047, 52095, 51071, 53119, 49407,
    51455, 50431, 52479, 49919, 51967, 50943, 52991, 49663, 51711, 50687,
    52735, 50175, 52223, 51199, 53247>>

midrange_4 ==
  <<16390, 8192, 16398, 12290, 20485, 16385, 20501, 16393, 24579, 20493, 24611,
    20509, 32839, 24595, 32967, 24627, 28699, 24587, 32807, 24619, 37079,
    28763, 37335, 28731, 41463, 32935, 41975, 32871, 45647, 40975, 46671,
    41487, 36919, 28795, 37175, 28679, 41231, 32999, 41743, 32791, 45391,
    37047, 46415, 41103, 49199, 45903, 51247, 46927, 50223, 45263, 52271,
    46287, 49711, 51759, 50735, 52783, 49455, 51503, 50479, 52527, 49967,
    52015, 50991, 53039, 41615, 32919, 41359, 32855, 45775, 37303, 46799,
    36983, 49327, 45519, 51375, 46543, 50351, 52399, 49839, 51887, 50863,
    52911, 49583, 51631, 50607, 52655, 50095, 52143, 51119, 53167, 49263,
    51311, 50287, 52335, 49775, 51823, 50799, 52847, 49519, 51567, 50543,
    52591, 50031, 52079, 51055, 53103, 49391, 51439, 50415, 52463, 49903,
    51951, 50927, 52975, 49647, 51695, 50671, 52719, 50159, 52207, 51183,
    53231, 49183, 51231, 50207, 52255, 49695, 51743, 46031, 37239, 47055,
    37111, 50719, 41871, 52767, 41039, 49439, 51487, 50463, 52511, 49951,
    51999, 50975, 53023, 49311, 51359, 50335, 52383, 49823, 51871, 50847,
    52895, 49567, 51615, 50591, 52639, 50079, 52127, 51103, 53151, 49247,
    51295, 50271, 52319, 49759, 51807, 50783, 52831, 49503, 51551, 50527,
    52575, 50015, 52063, 51039, 53087, 49375, 51423, 50399, 52447, 49887,
    51935, 50911, 52959, 49631, 51679, 50655, 52703, 50143, 52191, 51167,
    53215, 49215, 51263, 50239, 52287, 49727, 51775, 50751, 52799, 49471,
    51519, 50495, 52543, 49983, 52031, 51007, 53055, 49343, 51391, 50367,
    52415, 49855, 51903, 50879, 52927, 49599, 51647, 50623, 52671, 50111,
    52159, 51135, 53183, 49279, 51327, 50303, 52351, 49791, 51839, 50815,
    52863, 49535, 51583, 50559, 52607, 50047, 52095, 51071, 53119, 49407,
    51455, 50431, 52479, 49919, 51967, 50943, 52991, 49663, 51711, 50687,
    52735, 50175, 52223, 51199, 53247>>

midrange_5 ==
  <<20489, 12290, 20505, 8192, 24579, 16385, 20485, 12294, 28715, 20501, 28779,
    20493, 32775, 24611, 32903, 20509, 32839, 24595, 32967, 24627, 37015,
    28699, 37271, 24587, 41207, 32807, 41719, 32935, 45391, 36951, 46415,
    37207, 37079, 28763, 37335, 28731, 41463, 32871, 41975, 28795, 45903,
    36919, 46927, 37175, 49455, 40975, 51503, 41487, 50479, 41231, 52527,
    41743, 49967, 45263, 52015, 46287, 50991, 53039, 49327, 51375, 50351,
    52399, 49839, 51887, 41103, 32999, 41615, 32791, 45775, 37047, 46799,
    37303, 50863, 41359, 52911, 41871, 49583, 45519, 51631, 46543, 50607,
    46031, 52655, 47055, 50095, 52143, 51119, 53167, 49263, 51311, 50287,
    52335, 49775, 51823, 50799, 52847, 49519, 51567, 50543, 52591, 50031,
    52079, 51055, 53103, 49391, 51439, 50415, 52463, 49903, 51951, 50927,
    52975, 49647, 51695, 50671, 52719, 50159, 52207, 51183, 53231, 49183,
    51231, 50207, 52255, 49695, 51743, 50719, 52767, 45103, 36983, 46127,
    37239, 49439, 41039, 51487, 41551, 50463, 45615, 52511, 46639, 49951,
    51999, 50975, 53023, 49311, 51359, 50335, 52383, 49823, 51871, 50847,
    52895, 49567, 51615, 50591, 52639, 50079, 52127, 51103, 53151, 49247,
    51295, 50271, 52319, 49759, 51807, 50783, 52831, 49503, 51551, 50527,
    52575, 50015, 52063, 51039, 53087, 49375, 51423, 50399, 52447, 49887,
    51935, 50911, 52959, 49631, 51679, 50655, 52703, 50143, 52191, 51167,
    53215, 49215, 51263, 50239, 52287, 49727, 51775, 50751, 52799, 49471,
    51519, 50495, 52543, 49983, 52031, 51007, 53055, 49343, 51391, 50367,
    52415, 49855, 51903, 50879, 52927, 49599, 51647, 50623, 52671, 50111,
    52159, 51135, 53183, 49279, 51327, 50303, 52351, 49791, 51839, 50815,
    52863, 49535, 51583, 50559, 52607, 50047, 52095, 51071, 53119, 49407,
    51455, 50431, 52479, 49919, 51967, 50943, 52991, 49663, 51711, 50687,
    52735, 50175, 52223, 51199, 53247>>

encoding_tables_for_high_entropy_byte ==
  <<steady_0, steady_1, steady_2, steady_3, steady_4, steady_5, steady_6, steady_7,
    steady_8, steady_9, steady_10, steady_11, steady_12, steady_13, steady_14,
    steady_15, midrange_0, midrange_1, midrange_2, midrange_3, midrange_4, midrange_5>>

length_limited_unary_encoding_table65 ==
  <<4096, 8193, 12291, 16391, 20495, 28703, 32863, 32991, 41023, 41535, 45375,
    50495, 52543, 49983, 52031, 51007, 53055, 49343, 51391, 50367, 52415,
    49855, 51903, 50879, 52927, 49599, 51647, 50623, 52671, 50111, 52159,
    51135, 53183, 49279, 51327, 50303, 52351, 49791, 51839, 50815, 52863,
    49535, 51583, 50559, 52607, 50047, 52095, 51071, 53119, 49407, 51455,
    50431, 52479, 49919, 51967, 50943, 52991, 49663, 51711, 50687, 52735,
    50175, 52223, 51199, 53247>>

\* The orders of the columns beside the window, for the sixteen phases.
column_permutations_for_encoding ==
  <<<<0, 1, 2, 3, 5, 6, 7, 8, 9, 10, 11, 12, 13, 15, 16, 17, 18, 19, 20, 21,
      22, 23, 24, 25, 26, 27, 28, 29, 30, 31, 32, 33, 35, 36, 37, 38, 39, 40,
      41, 42, 43, 44, 45, 46, 47, 48, 49, 50, 51, 52, 53, 54, 55, 34, 14, 4>>,
    <<0, 1, 2, 3, 5, 6, 7, 8, 9, 10, 11, 12, 13, 14, 16, 17, 18, 19, 20, 21,
      22, 23, 24, 25, 26, 27, 28, 29, 30, 31, 32, 33, 34, 36, 37, 38, 39, 40,
      41, 42, 43, 44, 45, 46, 47, 48, 49, 50, 51, 52, 53, 54, 55, 35, 15, 4>>,
    <<0, 1, 2, 3, 4, 6, 7, 8, 9, 10, 11, 12, 13, 14, 15, 17, 18, 19, 20, 21,
      22, 23, 24, 25, 26, 27, 28, 29, 30, 31, 32, 33, 34, 35, 36, 38, 39, 40,
      41, 42, 43, 44, 45, 46, 47, 48, 49, 50, 51, 52, 53, 54, 55, 37, 16, 5>>,
    <<0, 1, 2, 3, 4, 6, 7, 8, 9, 10, 11, 12, 13, 14, 15, 16, 18, 19, 20, 21,
      22, 23, 24, 25, 26, 27, 28, 29, 30, 31, 32, 33, 34, 35, 36, 37, 38, 40,
      41, 42, 43, 44, 45, 46, 47, 48, 49, 50, 51, 52, 53, 54, 55, 39, 17, 5>>,
    <<0, 1, 2, 3, 4, 5, 7, 8, 9, 10, 11, 12, 13, 14, 15, 16, 17, 19, 20, 21,
      22, 23, 24, 25, 26, 27, 28, 29, 30, 31, 32, 33, 34, 35, 36, 37, 38, 39,
      40, 42, 43, 44, 45, 46, 47, 48, 49, 50, 51, 52, 53, 54, 55, 41, 18, 6>>,
    <<0, 1, 2, 3, 4, 5, 7, 8, 9, 10, 11, 12, 13, 14, 15, 16, 17, 18, 20, 21,
      22, 23, 24, 25, 26, 27, 28, 29, 30, 31, 32, 33, 34, 35, 36, 37, 38, 39,
      40, 41, 42, 44, 45, 46, 47, 48, 49, 50, 51, 52, 53, 54, 55, 43, 19, 6>>,
    <<1, 2, 3, 4, 5, 6, 8, 9, 10, 11, 12, 13, 14, 15, 16, 17, 18, 19, 21, 22,
      23, 24, 25, 26, 27, 28, 29, 30, 31, 32, 33, 34, 35, 36, 37, 38, 39, 40,
      41, 42, 43, 44, 46, 47, 48, 49, 50, 51, 52, 53, 54, 55, 45, 20, 7, 0>>,
    <<1, 2, 3, 4, 5, 6, 8, 9, 10, 11, 12, 13, 14, 15, 16, 17, 18, 19, 20, 22,
      23, 24, 25, 26, 27, 28, 29, 30, 31, 32, 33, 34, 35, 36, 37, 38, 39, 40,
      41, 42, 43, 44, 45, 46, 48, 49, 50, 51, 52, 53, 54, 55, 47, 21, 7, 0>>,
    <<1, 2, 3, 4, 5, 6, 7, 9, 10, 11, 12, 13, 14, 15, 16, 17, 18, 19, 20, 21,
      23, 24, 25, 26, 27, 28, 29, 30, 31, 32, 33, 34, 35, 36, 37, 38, 39, 40,
      41, 42, 43, 44, 45, 46, 47, 48, 49, 51, 52, 53, 54, 55, 50, 22, 8, 0>>,
    <<0, 2, 3, 4, 5, 6, 7, 8, 10, 11, 12, 13, 14, 15, 16, 17, 18, 19, 20, 21,
      22, 24, 25, 26, 27, 28, 29, 30, 31, 32, 33, 34, 35, 36, 37, 38, 39, 40,
      41, 42, 43, 44, 45, 46, 47, 48, 49, 50, 51, 53, 54, 55, 52, 23, 9, 1>>,
    <<0, 2, 3, 4, 5, 6, 7, 8, 10, 11, 12, 13, 14, 15, 16, 17, 18, 19, 20, 21,
      22, 23, 24, 26, 27, 28, 29, 30, 31, 32, 33, 34, 35, 36, 37, 38, 39, 40,
      41, 42, 43, 44, 45, 46, 47, 48, 49, 50, 51, 52, 53, 54, 55, 25, 9, 1>>,
    <<0, 2, 3, 4, 5, 6, 7, 8, 9, 11, 12, 13, 14, 15, 16, 17, 18, 19, 20, 21,
      22, 23, 24, 25, 27, 28, 29, 30, 31, 32, 33, 34, 35, 36, 37, 38, 39, 40,
      41, 42, 43, 44, 45, 46, 47, 48, 49, 50, 51, 52, 53, 54, 55, 26, 10, 1>>,
    <<0, 1, 3, 4, 5, 6, 7, 8, 9, 10, 12, 13, 14, 15, 16, 17, 18, 19, 20, 21,
      22, 23, 24, 25, 26, 28, 29, 30, 31, 32, 33, 34, 35, 36, 37, 38, 39, 40,
      41, 42, 43, 44, 45, 46, 47, 48, 49, 50, 51, 52, 53, 54, 55, 27, 11, 2>>,
    <<0, 1, 3, 4, 5, 6, 7, 8, 9, 10, 12, 13, 14, 15, 16, 17, 18, 19, 20, 21,
      22, 23, 24, 25, 26, 27, 28, 30, 31, 32, 33, 34, 35, 36, 37, 38, 39, 40,
      41, 42, 43, 44, 45, 46, 47, 48, 49, 50, 51, 52, 53, 54, 55, 29, 11, 2>>,
    <<0, 1, 2, 4, 5, 6, 7, 8, 9, 10, 11, 13, 14, 15, 16, 17, 18, 19, 20, 21,
      22, 23, 24, 25, 26, 27, 28, 29, 31, 32, 33, 34, 35, 36, 37, 38, 39, 40,
      41, 42, 43, 44, 45, 46, 47, 48, 49, 50, 51, 52, 53, 54, 55, 30, 12, 3>>,
    <<0, 1, 2, 4, 5, 6, 7, 8, 9, 10, 11, 12, 14, 15, 16, 17, 18, 19, 20, 21,
      22, 23, 24, 25, 26, 27, 28, 29, 30, 31, 33, 34, 35, 36, 37, 38, 39, 40,
      41, 42, 43, 44, 45, 46, 47, 48, 49, 50, 51, 52, 53, 54, 55, 32, 13, 3>>>>
=============================================================================
